---- MODULE Spec2Model ----
(***************************************************************************)
(* The step-function executor of pkg/execution/executor/executor.go as a   *)
(* state machine.  The state store, the queue and the drivers are the      *)
(* executor's collaborators: every call the executor makes on them is one  *)
(* atomic step, and a handler of the executor is a sequence of such steps  *)
(* run by a worker, so that concurrent handlers interleave between their   *)
(* calls exactly as goroutines and processes of the service do.            *)
(***************************************************************************)
EXTENDS Integers, Sequences, FiniteSets, TLC

\* ------------------------------------------------------------------ bounds
MaxWorkers == 2  \* queue workers running handlers at the same time
MaxRuns == 2     \* run ids minted by Schedule
MaxTime == 2     \* clock ticks
MaxAttempts == 2 \* attempts the queue makes of one item
MaxCancels == 2  \* calls of the Cancel API
NumListeners == 2 \* lifecycle listeners registered with the executor

Workers == 1..MaxWorkers
API == 0                      \* the thread of the API's caller
Threads == Workers \cup {API}
RunIds == 1..MaxRuns
Listeners == 1..NumListeners

\* ------------------------------------------------------- program constants
sourceEdgeRetries == 20
DefaultMaxAttempts == 4
CancelTimeout == 3
PauseThreshold == 10
PauseHandleConcurrency == 100
TriggerName == "$trigger"
FnFinishedName == "inngest/function.finished"
FnFailedName == "inngest/function.failed"
StepID == "step"

\* ------------------------------------------------------------ the state
VARIABLES
  runs,      \* state store: run index -> run state
  idem,      \* state store: idempotency keys of created runs
  pauses,    \* state store: pause id -> pause
  queue,     \* queue: items waiting to run
  jobs,      \* queue: job ids it has accepted
  now,       \* the clock
  nextRun,   \* run ids minted so far
  nextUUID,  \* random (v4) uuids drawn so far
  delivered, \* events and API calls delivered so far, per kind
  pc,        \* worker -> position in its handler
  loc,       \* worker -> the handler's local variables
  hist,      \* the calls that have returned, with their results
  emitted    \* events handed to the finish handler / event publisher, and
             \* the calls the lifecycle listeners have received

vars == <<runs, idem, pauses, queue, jobs, now, nextRun, nextUUID, delivered,
          pc, loc, hist, emitted>>

store == <<runs, idem, pauses>>
qvars == <<queue, jobs>>

Idle == [op |-> "idle"]

Put(f, k, v) == [x \in DOMAIN f \cup {k} |-> IF x = k THEN v ELSE f[x]]
Drop(f, k) == [x \in DOMAIN f \ {k} |-> f[x]]

\* A run id is a ULID: creation time plus a random tail; its string form has a
\* fixed length, so distinct run ids never share a prefix.
RunNames == <<"run1", "run2", "run3", "run4", "run5", "run6">>
UUIDNames == <<"u1", "u2", "u3", "u4", "u5", "u6", "u7", "u8">>
RunIDString(n) == RunNames[n]

\* ------------------------------------------------------------ expressions
\* An expression as the evaluator parses it: && binds tighter than ||, so the
\* text is a disjunction (a sequence) of conjunctions (sequences) of atoms; <<>>
\* is no expression.  Atoms: a condition on the event's data, the clause
\* (async.ts == null || async.ts > n), the match of an invocation's correlation id.
Data(name) == [kind |-> "data", s |-> <<name>>, n |-> 0]
TsAfter(t) == [kind |-> "ts", s |-> <<>>, n |-> t]
Correlates(c) == [kind |-> "corr", s |-> c, n |-> 0]

\* ------------------------------------------------- functions and requests
\* The functions the loader knows.  f1 declares one cancellation trigger, with
\* a timeout and the condition "a || b", and has no steps; f2 runs two planned steps; f3 is debounced; f4
\* waits for an event or for a function it invokes.
\* f6 declares two cancellation triggers, the first without a timeout.
\* f7 invokes another function as step "i" and waits a tick for its result.
\* The step of f8 is of a runtime type no driver is registered for.
\* f9 waits, as step "x", with an expression that does not compile.
\* The SDK of f10 changes its request version between two calls.
\* The second cancellation of f11 has a timeout that is no duration.
Fns == {"f1", "f2", "f3", "f4", "f5", "f6", "f7", "f8", "f9", "f10", "f11"}
runtimeDrivers == {"http"}
Driver(fn) == IF fn = "f8" THEN "docker" ELSE "http"
FnCfg(fn) ==
  [cancel   |-> IF fn = "f1" THEN <<[event |-> "go", timeout |-> "1s",
                                    if |-> <<<<Data("a")>>, <<Data("b")>>>>]>>
                ELSE IF fn = "f6" THEN <<[event |-> "go", timeout |-> "", if |-> <<>>],
                                         [event |-> "stop", timeout |-> "1s", if |-> <<>>]>>
                ELSE IF fn = "f11" THEN <<[event |-> "go", timeout |-> "", if |-> <<>>],
                                          [event |-> "stop", timeout |-> "soon", if |-> <<>>]>>
                ELSE <<>>,
   debounce |-> (fn = "f3"),
   retries  |-> 1]

\* Events.  Internal ids are ULIDs: EventIDTime is the time encoded in one.
\* e1, e2 and e4 are "go" events, e1 without a ts field (EventTs 0), e4 with a
\* ts that is not after e1's arrival; e3 reports the end of the function that
\* step "i" of the first run invoked.  EventData is what the conditions "a" and
\* "b" find in the event.
EventIds == {"e1", "e2", "e3"}
EventIDTime(e) == IF e = "e1" THEN 1 ELSE 2
EventTs(e) == IF e = "e1" THEN 0 ELSE IF e = "e4" THEN 1 ELSE 2
EventData(e) == IF e = "e4" THEN {"a"} ELSE {"b"}
EventName(e) ==
  IF e = "e3" THEN FnFinishedName ELSE IF e = "e5" THEN FnFailedName ELSE "go"
CorrelationID(e) == IF e = "e3" THEN <<RunIDString(1), "i">> ELSE <<>>

\* execution.ScheduleRequest.  idem = "" and batch = "" stand for nil pointers
\* (an explicit empty key behaves like none, executor.go:305), pausedAt = -1
\* for a nil FunctionPausedAt.
ScheduleRequests ==
  [fn : {"f1", "f2"}, events : {<<"e1">>}, idem : {"", "e1"},
   orig : BOOLEAN, batch : {""}, prevent : {FALSE}, pausedAt : {-1}]
    \cup
  [fn : {"f2"}, events : {<<"e1", "e2">>}, idem : {"f2-b1"},
   orig : {FALSE}, batch : {"b1"}, prevent : {FALSE}, pausedAt : {-1}]
    \cup
  [fn : {"f3"}, events : {<<"e2">>}, idem : {""},
   orig : {FALSE}, batch : {""}, prevent : BOOLEAN, pausedAt : {-1}]
    \cup
  [fn : {"f2"}, events : {<<"e2">>}, idem : {""},
   orig : {FALSE}, batch : {""}, prevent : {FALSE}, pausedAt : {0, 1}]

\* --------------------------------------------------------- the state store
\* state.Identifier.IdempotencyKey(): the function id and the key, the run id
\* standing in for an empty key.
IdempotencyKey(id) ==
  <<id.fn, IF id.key = "" THEN RunIDString(id.run) ELSE id.key>>

NewRunState(input) ==
  [id |-> input.id, status |-> "scheduled", events |-> input.events,
   startedAt |-> 0, spanID |-> input.spanID, rv |-> -1, die |-> FALSE,
   actions |-> [x \in {} |-> ""], exists |-> TRUE]

\* state.Manager.New: ErrIdentifierExists when the idempotency key is taken.
smNewErr(input) ==
  IF IdempotencyKey(input.id) \in idem THEN "ErrIdentifierExists" ELSE "nil"
smNew(input) ==
  IF smNewErr(input) = "nil"
  THEN /\ runs' = Put(runs, input.id.run, NewRunState(input))
       /\ idem' = idem \cup {IdempotencyKey(input.id)}
  ELSE UNCHANGED <<runs, idem>>

\* state.Manager.SavePause: ErrPauseAlreadyExists when the id is taken.
smSavePauseErr(p) == IF p.id \in DOMAIN pauses THEN "ErrPauseAlreadyExists" ELSE "nil"
smSavePause(p) ==
  IF smSavePauseErr(p) = "nil" THEN pauses' = Put(pauses, p.id, p)
  ELSE UNCHANGED pauses

\* state.Manager.LeasePause: one holder at a time.
smLeasePauseErr(id) ==
  IF id \notin DOMAIN pauses THEN "ErrPauseNotFound"
  ELSE IF pauses[id].leased THEN "ErrPauseLeased"
  ELSE "nil"
smLeasePause(id) ==
  IF smLeasePauseErr(id) = "nil"
  THEN pauses' = [pauses EXCEPT ![id].leased = TRUE]
  ELSE UNCHANGED pauses

\* state.Manager.ConsumePause: removes the pause and stores the data under the
\* pause's data key, "null" for no data.
smConsumePauseErr(id) == IF id \in DOMAIN pauses THEN "nil" ELSE "ErrPauseNotFound"
smConsumePause(id, data) ==
  IF smConsumePauseErr(id) = "nil"
  THEN /\ pauses' = Drop(pauses, id)
       /\ LET p == pauses[id]
              run == p.run.run
          IN  IF p.dataKey # "" /\ run \in DOMAIN runs /\ runs[run].exists
              THEN runs' = [runs EXCEPT ![run].actions =
                              Put(@, p.dataKey, IF data = "" THEN "null" ELSE data)]
              ELSE UNCHANGED runs
  ELSE UNCHANGED <<runs, pauses>>

\* state.Manager.DeletePause
smDeletePause(id) == pauses' = Drop(pauses, id)

\* state.Manager.PauseByInvokeCorrelationID: the pauses of the correlation id.
PauseByInvokeCorrelationID(corr) ==
  {id \in DOMAIN pauses : pauses[id].corr = corr /\ corr # <<>>}

\* state.Manager.Load / Metadata / Exists: a run that was never created, or whose
\* state was deleted, has no metadata; Load's error says so in the words that
\* executor.go:1312 and 1451 look for.
ErrNoStatus == "no status stored in metadata"
smExists(run) == run \in DOMAIN runs /\ runs[run].exists
smLoadErr(run) == IF smExists(run) THEN "nil" ELSE ErrNoStatus

\* state.Manager.UpdateMetadata: started_at and span_id are written once; the
\* first start moves a scheduled run to running.
smUpdateMetadataErr(run) == smLoadErr(run)
smUpdateMetadata(run, upd) ==
  IF smUpdateMetadataErr(run) = "nil"
  THEN runs' = [runs EXCEPT ![run] =
         [@ EXCEPT !.die = upd.die,
                   !.rv = upd.rv,
                   !.startedAt = IF @ = 0 THEN upd.startedAt ELSE @,
                   !.spanID = IF @ = "" THEN upd.spanID ELSE @,
                   !.status = IF @ = "scheduled" /\ upd.startedAt # 0
                              THEN "running" ELSE @]]
  ELSE UNCHANGED runs

\* state.Manager.SaveResponse: ErrDuplicateResponse when the step has an output.
smSaveResponseErr(run, step) ==
  IF ~smExists(run) THEN "ErrRunNotFound"
  ELSE IF step \in DOMAIN runs[run].actions THEN "ErrDuplicateResponse"
  ELSE "nil"
smSaveResponse(run, step, out) ==
  IF smSaveResponseErr(run, step) = "nil"
  THEN runs' = [runs EXCEPT ![run].actions = Put(@, step, out)]
  ELSE UNCHANGED runs

\* state.Manager.SetStatus: writes the status it is given.
smSetStatusErr(run) == smLoadErr(run)
smSetStatus(run, status) ==
  IF smSetStatusErr(run) = "nil"
  THEN runs' = [runs EXCEPT ![run].status = status]
  ELSE UNCHANGED runs

\* state.Manager.Cancel: marks a run that has not ended as cancelled.
smCancelErr(run) ==
  IF ~smExists(run) THEN "ErrRunNotFound"
  ELSE IF runs[run].status \in {"completed", "failed", "cancelled"} THEN "ErrFunctionEnded"
  ELSE "nil"
smCancel(run) ==
  IF smCancelErr(run) = "nil"
  THEN runs' = [runs EXCEPT ![run].status = "cancelled"]
  ELSE UNCHANGED runs

\* state.Manager.Delete: the run's state is gone; its idempotency key stays.
smDelete(run) ==
  IF smExists(run)
  THEN runs' = [runs EXCEPT ![run].exists = FALSE]
  ELSE UNCHANGED runs

\* ---------------------------------------------------------------- the queue
\* queue.Enqueue: ErrQueueItemExists when the job id was accepted before.
EnqueueErr(item) == IF item.jobID \in jobs THEN "ErrQueueItemExists" ELSE "nil"
Enqueue(item) ==
  IF EnqueueErr(item) = "nil"
  THEN /\ queue' = queue \cup {item}
       /\ jobs' = jobs \cup {item.jobID}
  ELSE UNCHANGED <<queue, jobs>>

NoEdge == [outgoing |-> "", incoming |-> "", gen |-> ""]
SourceEdge == [outgoing |-> "", incoming |-> TriggerName, gen |-> ""]

Item(jobID, kind, id, maxAttempts, edge, at, pauseID) ==
  [jobID |-> jobID, kind |-> kind, id |-> id, attempt |-> 0,
   maxAttempts |-> maxAttempts, edge |-> edge, at |-> at, pauseID |-> pauseID]

NoPause == <<>>

\* queue.ShouldRetry: attempts count from 0.
ShouldRetry(attempt, maxAttempts) == attempt + 1 < maxAttempts

\* The queue's answer to a handler's return: an error is retried per the item's
\* attempt policy; nil, or a response that is not retryable, ends the item.
Requeue(item, retry) ==
  IF retry /\ ShouldRetry(item.attempt, item.maxAttempts) /\ item.attempt + 1 < MaxAttempts
  THEN {[item EXCEPT !.attempt = @ + 1]}
  ELSE {}

\* ------------------------------------------------------------ bookkeeping
Return(w, rec) ==
  /\ hist' = hist \cup {rec}
  /\ pc' = [pc EXCEPT ![w] = "idle"]
  /\ loc' = [loc EXCEPT ![w] = Idle]

Goto(w, label, l) ==
  /\ pc' = [pc EXCEPT ![w] = label]
  /\ loc' = [loc EXCEPT ![w] = l]
  /\ UNCHANGED hist

\* A call starts on the first idle worker (workers are interchangeable).
GotoLog(w, label, l, rec) ==
  /\ pc' = [pc EXCEPT ![w] = label]
  /\ loc' = [loc EXCEPT ![w] = l]
  /\ hist' = hist \cup {rec}
CanStart(w) ==
  /\ pc[w] = "idle"
  /\ w \in Workers => \A v \in Workers : v < w => pc[v] # "idle"

\* A call received by lifecycle listener k; by names the queue item and the
\* attempt the listener is given.
Lifecycle(name, k, run, by) ==
  [name |-> name, run |-> run, err |-> "", by |-> by, listener |-> k]

\* for _, l := range e.lifecycles { go l.On...(...) }
Notify(name, run, by) == {Lifecycle(name, k, run, by) : k \in Listeners}

\* ----------------------------------------------------------------- Schedule
\* executor.go:294-312
ScheduleKey(req, runID) ==
  LET k1 == req.idem
      k2 == IF req.orig THEN RunIDString(runID) ELSE k1
      k3 == IF k2 = "" /\ Len(req.events) = 1 THEN req.events[1] ELSE k2
      k4 == IF k3 = "" /\ req.batch # "" THEN req.batch ELSE k3
  IN  k4

\* The identifier built without the key: the store then falls back to the run id.
ScheduleIdentifier_NoKey(req, runID, key) ==
  [run |-> runID, time |-> now, fn |-> req.fn, key |-> "",
   evt |-> req.events[1], batch |-> req.batch]

\* executor.go:320-333
ScheduleIdentifier(req, runID, key) ==
  [run |-> runID, time |-> now, fn |-> req.fn, key |-> key,
   evt |-> req.events[1], batch |-> req.batch]

\* executor.go:2591-2603: the text expr + " && " + "(async.ts == null ||
\* async.ts > T)", T the time in the first event's id, as the evaluator parses
\* it: the clause joins the last conjunction of expr.
generateCancelExpression(eventID, expr) ==
  LET res == TsAfter(EventIDTime(eventID))
  IN  IF expr = <<>> THEN <<<<res>>>>
      ELSE [expr EXCEPT ![Len(expr)] = Append(@, res)]

ScheduleResult(l, res) ==
  [op |-> "Schedule", fn |-> l.req.fn, key |-> l.key, run |-> l.id.run, res |-> res]

\* debounce.Debouncer.Debounce: the debouncer is handed the function and the
\* first event, and schedules the function itself later.
Debounced(req) ==
  [name |-> "Debounce", run |-> 0, err |-> "",
   by |-> [job |-> <<req.fn, req.events[1]>>, attempt |-> 0]]

\* executor.go:335: FunctionPausedAt.Before(time.Now())
isPaused(req) == req.pausedAt # -1 /\ req.pausedAt < now

\* executor.go:272-456: the debounce and paused checks, the run id, the key and
\* state.New.
Schedule_Begin(w, req) ==
  /\ IF FnCfg(req.fn).debounce /\ ~req.prevent
     THEN /\ Return(w, [op |-> "Schedule", fn |-> req.fn, key |-> "", run |-> 0,
                        res |-> "ErrFunctionDebounced"])
          /\ emitted' = emitted \cup {Debounced(req)}
          /\ UNCHANGED <<store, qvars, now, nextRun, nextUUID, delivered>>
     ELSE /\ nextRun < MaxRuns
          /\ nextRun' = nextRun + 1
          /\ LET runID == nextRun + 1
                 key == ScheduleKey(req, runID)
                 id == ScheduleIdentifier(req, runID, key)
                 input == [id |-> id, events |-> req.events, spanID |-> "span"]
                 l == [op |-> "Schedule", req |-> req, id |-> id, key |-> key, i |-> 1]
             IN  IF isPaused(req)
                 THEN /\ Return(w, ScheduleResult(l, "ErrFunctionSkipped"))
                      /\ emitted' = emitted \cup
                           Notify("OnFunctionSkipped", runID,
                                  [job |-> <<req.fn, key>>, attempt |-> 0])
                      /\ UNCHANGED <<store, qvars>>
                 ELSE /\ smNew(input)
                      /\ UNCHANGED <<pauses, qvars, emitted>>
                      /\ IF smNewErr(input) = "ErrIdentifierExists"
                         THEN Return(w, ScheduleResult(l, "ErrIdentifierExists"))
                         ELSE Goto(w, "Schedule_SavePause", l)
          /\ UNCHANGED <<now, nextUUID, delivered>>

\* Schedule called by the API's caller or an event's handler.
Schedule_New(w, req) == CanStart(w) /\ Schedule_Begin(w, req)

\* str2duration.ParseDuration, in ticks of the clock: the timeouts of the model
\* are shorter than a tick.
ParseDuration(d) == 0
ParseDurationErr(d) == d = "soon"

\* The cancellation pauses saved for batch runs as well.
CancelTriggers_Batch(req) == FnCfg(req.fn).cancel

\* executor.go:459-460: the triggers that get a pause, none for a batch.
CancelTriggers(req) == IF req.batch # "" THEN <<>> ELSE FnCfg(req.fn).cancel

\* executor.go:458-517: one cancellation pause per declared trigger, non-batch only.
Schedule_SavePause(w) ==
  /\ pc[w] = "Schedule_SavePause"
  /\ LET l == loc[w]
         cs == CancelTriggers(l.req)
     IN  IF l.i > Len(cs)
         THEN /\ Goto(w, "Schedule_Enqueue", l)
              /\ UNCHANGED <<store, nextUUID>>
         ELSE IF cs[l.i].timeout # "" /\ ParseDurationErr(cs[l.i].timeout)
         THEN /\ Return(w, ScheduleResult(l, "error parsing cancel duration"))
              /\ UNCHANGED <<store, nextUUID>>
         ELSE LET c == cs[l.i]
                  expires == IF c.timeout = "" THEN now + CancelTimeout
                             ELSE now + ParseDuration(c.timeout)
                  pause == [id |-> <<"v4", UUIDNames[nextUUID + 1]>>, run |-> l.id, group |-> "",
                            outgoing |-> "", incoming |-> "", opcode |-> "",
                            expires |-> expires, event |-> c.event,
                            expr |-> generateCancelExpression(l.req.events[1], c.if),
                            dataKey |-> "", cancel |-> TRUE, onTimeout |-> FALSE,
                            trigger |-> l.req.events[1], corr |-> <<>>, leased |-> FALSE]
              IN  /\ nextUUID' = nextUUID + 1
                  /\ smSavePause(pause)
                  /\ UNCHANGED <<runs, idem>>
                  /\ Goto(w, "Schedule_SavePause", [l EXCEPT !.i = l.i + 1])
  /\ UNCHANGED <<qvars, now, nextRun, delivered, emitted>>

\* executor.go:549-566
ScheduleItem(l) ==
  Item(<<l.req.fn, l.key>>, "start", l.id, sourceEdgeRetries, SourceEdge, now, NoPause)

\* executor.go:519-582
\* executor.go:567-575 when the queue refuses the start item with an error that
\* is not ErrQueueItemExists: the error is returned.
Schedule_EnqueueFails(w) ==
  /\ pc[w] = "Schedule_Enqueue"
  /\ Return(w, ScheduleResult(loc[w], "error enqueueing source edge"))
  /\ UNCHANGED <<store, qvars, now, nextRun, nextUUID, delivered, emitted>>

Schedule_Enqueue(w) ==
  /\ pc[w] = "Schedule_Enqueue"
  /\ LET l == loc[w]
         item == ScheduleItem(l)
     IN  /\ Enqueue(item)
         /\ IF EnqueueErr(item) = "ErrQueueItemExists"
            THEN Return(w, ScheduleResult(l, "ErrIdentifierExists"))
            ELSE Return(w, ScheduleResult(l, "nil"))
  /\ UNCHANGED <<store, now, nextRun, nextUUID, delivered, emitted>>


\* --------------------------------------------------------------- batches
\* The batcher's one batch of f2: it is full with BatchMaxSize events, and the
\* execution scheduled for a new batch runs BatchTimeout after the first event.
BatchFn == "f2"
BatchID == "b1"
BatchMaxSize == 2
BatchTimeout == 1
BatchSources == {"e1", "e2"}

\* batch.Batcher.Append and RetrieveItems: the events appended so far, in the
\* order of their ids.
Appended == {e \in BatchSources : <<e, <<"append">>>> \in delivered.seen}
RetrieveItems ==
  IF Appended = BatchSources THEN <<"e1", "e2">>
  ELSE IF Appended = {} THEN <<>>
  ELSE <<CHOOSE e \in Appended : TRUE>>

\* The batch scheduled without a key of its own.
BatchKey_None(fn, batchID) == ""

\* executor.go:2523: fmt.Sprintf("%s-%s", fn.ID, payload.BatchID)
BatchKey(fn, batchID) == fn \o "-" \o batchID

\* executor.go:2524-2532
BatchRequest(fn, batchID, events) ==
  [fn |-> fn, events |-> events, idem |-> BatchKey(fn, batchID), orig |-> FALSE,
   batch |-> batchID, prevent |-> FALSE, pausedAt |-> -1]

BatchCall(from) == [op |-> "Batch", fn |-> BatchFn, batch |-> BatchID, from |-> from]

\* executor.go:2443-2449: the event is appended and the batcher tells what the
\* batch has become.
AppendAndScheduleBatch(w, e) ==
  /\ CanStart(w)
  /\ e \in BatchSources \ Appended
  /\ delivered' = [delivered EXCEPT !.seen = @ \cup {<<e, <<"append">>>>}]
  /\ LET n == Cardinality(Appended) + 1
     IN  IF n = 1 /\ n < BatchMaxSize
         THEN Goto(w, "AppendAndScheduleBatch_New", BatchCall("new"))
         ELSE IF n >= BatchMaxSize
         THEN Goto(w, "RetrieveAndScheduleBatch", BatchCall("full"))
         ELSE Return(w, [op |-> "AppendAndScheduleBatch", batch |-> BatchID, res |-> "append"])
  /\ UNCHANGED <<store, qvars, now, nextRun, nextUUID, emitted>>

\* executor.go:2453-2472: the execution of a new batch is scheduled at its timeout.
AppendAndScheduleBatch_New(w) ==
  /\ pc[w] = "AppendAndScheduleBatch_New"
  /\ LET l == loc[w]
         id == [run |-> 0, time |-> now, fn |-> l.fn, key |-> "", evt |-> "",
                batch |-> l.batch]
     IN  Enqueue(Item(<<"batch", l.batch>>, "batch", id, DefaultMaxAttempts, NoEdge,
                      now + BatchTimeout, NoPause))
  /\ Return(w, [op |-> "AppendAndScheduleBatch", batch |-> loc[w].batch, res |-> "new"])
  /\ UNCHANGED <<store, now, nextRun, nextUUID, delivered, emitted>>

\* The execution scheduled for the batch: the queue's job calls
\* RetrieveAndScheduleBatch.
BatchTimeoutJob(w) ==
  /\ CanStart(w)
  /\ \E item \in queue :
       /\ item.kind = "batch"
       /\ item.at <= now
       /\ queue' = queue \ {item}
       /\ Goto(w, "RetrieveAndScheduleBatch", BatchCall("timeout"))
  /\ UNCHANGED <<store, jobs, now, nextRun, nextUUID, delivered, emitted>>

\* executor.go:2491-2501: the batch's events are retrieved.
RetrieveAndScheduleBatch(w) ==
  /\ pc[w] = "RetrieveAndScheduleBatch"
  /\ GotoLog(w, "RetrieveAndScheduleBatch_Schedule",
             [op |-> "Batch", fn |-> loc[w].fn, batch |-> loc[w].batch,
              from |-> loc[w].from, events |-> RetrieveItems],
             [op |-> "RetrieveAndScheduleBatch", batch |-> loc[w].batch,
              from |-> loc[w].from, events |-> RetrieveItems])
  /\ UNCHANGED <<store, qvars, now, nextRun, nextUUID, delivered, emitted>>

\* executor.go:2523-2553: Schedule is called with the batch's key; its answer
\* is RetrieveAndScheduleBatch's, the batcher keeping the keys it is told to
\* expire for a while.
RetrieveAndScheduleBatch_Schedule(w) ==
  /\ pc[w] = "RetrieveAndScheduleBatch_Schedule"
  /\ Schedule_Begin(w, BatchRequest(loc[w].fn, loc[w].batch, loc[w].events))

\* ------------------------------------------------------------------ drivers
\* state.DriverResponse: err = "" for a nil Err, gen the opcodes, out the output.
Response(err, noRetry, gen, out) ==
  [err |-> err, noRetry |-> noRetry, gen |-> gen, out |-> out, rv |-> 1]
Op(op, id) == [op |-> op, id |-> id, noRetry |-> FALSE]
\* The opcode of a failed step; noRetry is its user error's NoRetry.
StepError(id, noRetry) == [op |-> "StepError", id |-> id, noRetry |-> noRetry]

\* state.DriverResponse.Retryable
Retryable(resp) == resp.err # "" /\ ~resp.noRetry

\* executor.go:1143-1158: at the last attempt of the step an error is final.
executeDriverForStep(resp, attempt, retries) ==
  IF /\ \/ (Len(resp.gen) = 1 /\ resp.gen[1].op = "StepError")
        \/ resp.err # ""
     /\ ~ShouldRetry(attempt, retries + 1)
  THEN [resp EXCEPT !.noRetry = TRUE]
  ELSE resp

\* The function's code as the SDK runs it: two parallel steps "a" and "b", then
\* the function's output.  A planned step is run; without their outputs the
\* steps are planned, or the code fails; while one is outstanding there is
\* nothing to do; with both the function returns.  With step "a" the SDK may
\* send an opcode the executor does not know.
Final == Response("", FALSE, <<>>, "out")
SDKSteps(edge, acts) ==
  IF edge.gen # ""
  THEN {Response("", FALSE, <<Op("Step", edge.gen)>>, "")}
         \cup (IF edge.gen = "a"
               THEN {Response("", FALSE, <<Op("Step", "a"), Op("Unknown", "")>>, "")}
               ELSE {})
  ELSE IF {"a", "b"} \subseteq DOMAIN acts
  THEN {Final}
  ELSE IF DOMAIN acts \cap {"a", "b"} = {}
  THEN {Response("", FALSE, <<Op("StepPlanned", "a"), Op("StepPlanned", "b")>>, ""),
        Response("boom", FALSE, <<>>, "")}
  ELSE {Response("", FALSE, <<Op("None", "")>>, "")}

\* The code of f4: it waits for a "go" event as step "w", or invokes another
\* function as step "i", and returns once the step has its result.
SDKWaits(edge, acts) ==
  IF DOMAIN acts \cap {"w", "i"} # {}
  THEN {Final}
  ELSE {Response("", FALSE, <<Op(op[1], op[2])>> \o more, "") :
          op \in {<<"WaitForEvent", "w">>, <<"InvokeFunction", "i">>},
          more \in {<<>>, <<Op("Unknown", "")>>}}

\* The code of f5: its one step "s" succeeds or fails, with an error that may
\* say NoRetry; or the call itself fails, whatever opcodes came with it.
SDKErrors(edge, acts) ==
  IF "s" \in DOMAIN acts
  THEN {Final}
  ELSE {Response("", FALSE, <<Op("Step", "s")>>, ""),
        Response("", FALSE, <<StepError("s", FALSE)>>, ""),
        Response("", FALSE, <<StepError("s", TRUE)>>, ""),
        Response("boom", FALSE, <<Op("Step", "s")>>, ""),
        Response("boom", TRUE, <<Op("Step", "s")>>, "")}

\* The code of f7: it invokes another function as step "i" and returns once
\* the step has its result.
SDKInvokes(edge, acts) ==
  IF "i" \in DOMAIN acts
  THEN {Final}
  ELSE {Response("", FALSE, <<Op("InvokeFunction", "i")>>, "")}

SDKCompiles(edge, acts) == {Final, Response("", FALSE, <<Op("WaitForEvent", "x")>>, "")}

\* A step run under request version 1, then two steps planned under version 2.
SDKVersions(edge, acts) ==
  IF "a" \notin DOMAIN acts
  THEN {Response("", FALSE, <<Op("Step", "a")>>, "")}
  ELSE {Final,
        [Response("", FALSE, <<Op("StepPlanned", "b"), Op("StepPlanned", "c")>>, "")
           EXCEPT !.rv = 2]}

SDK(fn, edge, acts) ==
  IF fn = "f1" THEN {Final}
  ELSE IF fn = "f10" THEN SDKVersions(edge, acts)
  ELSE IF fn = "f9" THEN SDKCompiles(edge, acts)
  ELSE IF fn = "f5" THEN SDKErrors(edge, acts)
  ELSE IF fn = "f4" THEN SDKWaits(edge, acts)
  ELSE IF fn = "f7" THEN SDKInvokes(edge, acts)
  ELSE SDKSteps(edge, acts)

\* ------------------------------------------------------------------ Execute
ExecuteKinds == {"start", "edge", "edge_error", "sleep"}

\* No output is ever found.
ActionID_None(acts, step) == <<>>

\* executor.go:764: the step's stored output, <<>> for none.
ActionID(acts, step) == IF step \in DOMAIN acts THEN <<acts[step]>> ELSE <<>>

\* executor.go:758-763
ExecuteIncoming(edge) == IF edge.gen # "" THEN edge.gen ELSE edge.incoming

\* Every attempt of the trigger edge records the start.
ExecuteStarts_EveryAttempt(trigger, attempt) == trigger

\* executor.go:712 and 730: the first attempt of the trigger edge.
ExecuteStarts(trigger, attempt) == trigger /\ attempt = 0

\* What the call hands back: ret is "nil", "resp" (the response as the error) or
\* "err"; retry tells whether the queue is to run the item again.
Returning(w, l, ret, retry) ==
  Goto(w, "Execute_Return", [l EXCEPT !.ret = ret, !.retry = retry])

\* executor.go:586-621 and 712-728: load the run, validate, and turn the trigger
\* edge into the function's step.
Execute_Load(w) ==
  /\ CanStart(w)
  /\ \E item \in queue :
       /\ item.kind \in ExecuteKinds
       /\ item.at <= now
       /\ queue' = queue \ {item}
       /\ LET run == item.id.run
              trigger == item.edge.incoming = TriggerName
              edge == IF trigger
                      THEN [outgoing |-> TriggerName, incoming |-> StepID, gen |-> ""]
                      ELSE item.edge
              gkey == IF item.edge.gen # "" THEN item.edge.gen ELSE item.edge.incoming
              l == [op |-> "Execute", item |-> item, edge |-> edge, trigger |-> trigger,
                    maxAttempts |-> IF trigger THEN FnCfg(item.id.fn).retries + 1
                                    ELSE item.maxAttempts,
                    md |-> IF smExists(run) THEN [runs[run] EXCEPT !.actions = {}]
                           ELSE Idle,
                    acts |-> IF smExists(run) THEN runs[run].actions ELSE <<>>,
                    stored |-> IF smExists(run) /\ gkey \in DOMAIN runs[run].actions
                               THEN runs[run].actions[gkey] ELSE "",
                    driver |-> FALSE, resp |-> Idle, ops |-> <<>>, err |-> "",
                    resaved |-> FALSE, pause |-> Idle,
                    ret |-> "", retry |-> FALSE, out |-> "", path |-> ""]
          IN  IF smLoadErr(run) # "nil"
              THEN Returning(w, l, "err", TRUE)
              ELSE IF runs[run].status = "cancelled"
              THEN Returning(w, l, "nil", FALSE)
              ELSE IF ExecuteStarts(trigger, item.attempt)
              THEN Goto(w, "Execute_Start", l)
              ELSE Goto(w, "Execute_Run", l)
  /\ UNCHANGED <<store, jobs, now, nextRun, nextUUID, delivered, emitted>>

\* executor.go:739-747
ExecuteStart(l) ==
  [die |-> l.md.die, spanID |-> l.md.spanID, rv |-> l.md.rv,
   startedAt |-> IF l.md.startedAt # 0 THEN l.md.startedAt ELSE now]

\* executor.go:730-755: the first attempt of the trigger records the start.
Execute_Start(w) ==
  /\ pc[w] = "Execute_Start"
  /\ smUpdateMetadata(loc[w].item.id.run, ExecuteStart(loc[w]))
  /\ Goto(w, "Execute_Run", loc[w])
  /\ UNCHANGED <<idem, pauses, qvars, now, nextRun, nextUUID, delivered, emitted>>

\* The label of the handler of the first opcode left, executor.go:1831-1854.
HandleGenerator(ops) ==
  IF ops = <<>> THEN "Execute_Return"
  ELSE CASE ops[1].op \in {"Step", "StepRun"} -> "handleGeneratorStep_Save"
         [] ops[1].op = "StepError" -> "handleStepError"
         [] ops[1].op = "StepPlanned" -> "handleGeneratorStepPlanned"
         [] ops[1].op = "WaitForEvent" -> "handleGeneratorWaitForEvent_SavePause"
         [] ops[1].op = "InvokeFunction" -> "handleGeneratorInvokeFunction_SavePause"
         [] OTHER -> "HandleGenerator_Skip"

\* The opcode is done with error err ("" for nil): on to the next one; after the
\* last, HandleResponse returns (executor.go:913-941).
\* With an error of compiling an expression HandleResponse fails the function
\* (executor.go:918).
ErrCompile == "error compiling expression"
CompileFailure_Never(e) == FALSE
CompileFailure(e) == e = ErrCompile

OpDone(w, l, err) ==
  LET rest == Tail(l.ops)
      e == IF l.err # "" THEN l.err ELSE err
      m == [l EXCEPT !.ops = rest, !.err = e]
  IN  IF rest = <<>>
      THEN IF CompileFailure(e)
           THEN Goto(w, "HandleResponse_CompileError", [m EXCEPT !.path = "compile"])
           ELSE Returning(w, m, IF e = "" THEN "nil" ELSE "err", e # "" /\ ~l.resp.noRetry)
      ELSE Goto(w, HandleGenerator(rest), m)

\* The retry announced with the attempt raised once, before the loop.
RetryScheduled_Once(item) ==
  Notify("OnStepScheduled", item.id.run, [job |-> item.jobID, attempt |-> item.attempt + 1])

\* executor.go:873-877 and 1953-1956: the loop over the listeners raises the
\* item's attempt and then calls the listener with the item.
RetryScheduled(item) ==
  {Lifecycle("OnStepScheduled", k, item.id.run,
             [job |-> item.jobID, attempt |-> item.attempt + k]) : k \in Listeners}

\* executor.go:1118-1121 and 1107-1113: without a driver for the step's runtime
\* type executeDriverForStep returns a nil response with ErrNoRuntimeDriver, and
\* run reads the Err field of that response: the goroutine panics with a nil
\* pointer dereference.
NoRuntimeDriver(fn) == Driver(fn) \notin runtimeDrivers

\* executor.go:764-772, 1089-1161 and 849-954: a stored output ends the call;
\* else the driver runs and HandleResponse picks its path.
Execute_Run(w, r) ==
  /\ pc[w] = "Execute_Run"
  /\ IF \/ ActionID(loc[w].acts, ExecuteIncoming(loc[w].edge)) # <<>>
        \/ NoRuntimeDriver(loc[w].item.id.fn)
     THEN r = Final
     ELSE r \in SDK(loc[w].item.id.fn, loc[w].edge, loc[w].acts)
  /\ LET l == loc[w]
         key == ExecuteIncoming(l.edge)
         resp == executeDriverForStep(r, l.item.attempt, FnCfg(l.item.id.fn).retries)
         m == [l EXCEPT !.driver = TRUE, !.resp = resp, !.ops = resp.gen]
         found == ActionID(l.acts, key)
     IN  IF found # <<>>
         THEN /\ Returning(w, [l EXCEPT !.out = found[1], !.path = "stored"], "nil", FALSE)
              /\ UNCHANGED emitted
         ELSE IF NoRuntimeDriver(l.item.id.fn)
         THEN /\ Goto(w, "panic", [l EXCEPT !.path = "panic", !.err = "ErrNoRuntimeDriver"])
              /\ UNCHANGED emitted
         ELSE IF resp.err # "" /\ Retryable(resp)
         THEN /\ Returning(w, [m EXCEPT !.path = "retry"], "resp", TRUE)
              /\ emitted' = emitted \cup RetryScheduled(l.item)
         ELSE /\ UNCHANGED emitted
              /\ IF resp.err # ""
                 THEN Goto(w, "HandleResponse_Failed", [m EXCEPT !.path = "failed"])
                 ELSE IF Len(resp.gen) > 0
                 THEN Goto(w, "HandleGeneratorResponse_Load", [m EXCEPT !.path = "generator"])
                 ELSE Goto(w, "HandleResponse_Save",
                           [m EXCEPT !.path = "final", !.out = resp.out])
  /\ UNCHANGED <<store, qvars, now, nextRun, nextUUID, delivered>>

\* The queue takes the call's answer.
Execute_Return(w) ==
  /\ pc[w] = "Execute_Return"
  /\ queue' = queue \cup Requeue(loc[w].item, loc[w].retry)
  /\ pc' = [pc EXCEPT ![w] = "idle"]
  /\ loc' = [loc EXCEPT ![w] = Idle]
  /\ UNCHANGED <<store, jobs, now, nextRun, nextUUID, delivered, emitted, hist>>

\* The queue delivers an item at least once: the lease of an item that is
\* being executed runs out, once, and the item can be taken again.
Redeliver(v) ==
  /\ loc[v].op = "Execute"
  /\ pc[v] # "Execute_Return"
  /\ <<"lease", loc[v].item.jobID>> \notin delivered.seen
  /\ delivered' = [delivered EXCEPT !.seen = @ \cup {<<"lease", loc[v].item.jobID>>}]
  /\ queue' = queue \cup {loc[v].item}
  /\ UNCHANGED <<store, jobs, now, nextRun, nextUUID, pc, loc, hist, emitted>>

\* ------------------------------------------------------------ HandleResponse
\* executor.go:1012-1068: one function.finished per triggering event, and the
\* legacy function.failed unless the run was cancelled; nothing for a run that
\* an internal finish event triggered.
\* The finish handler with the legacy failed event sent for every error.
runFinishHandler_Legacy(id, resp, by) ==
  {[name |-> n, run |-> id.run, err |-> resp.err, by |-> by] : n \in {FnFinishedName, FnFailedName}}

\* The finish handler without its look at the triggering event's name.
runFinishHandler_Recursive(id, resp, by) ==
  {[name |-> FnFinishedName, run |-> id.run, err |-> resp.err, by |-> by]}
    \cup (IF resp.err # "" /\ resp.err # "function cancelled"
          THEN {[name |-> FnFailedName, run |-> id.run, err |-> resp.err, by |-> by]}
          ELSE {})

\* executor.go:1012-1068
runFinishHandler(id, resp, by) ==
  IF EventName(id.evt) \in {FnFinishedName, FnFailedName} THEN {}
  ELSE {[name |-> FnFinishedName, run |-> id.run, err |-> resp.err, by |-> by]}
         \cup (IF resp.err # "" /\ resp.err # "function cancelled"
               THEN {[name |-> FnFailedName, run |-> id.run, err |-> resp.err, by |-> by]}
               ELSE {})

Caller(l) == [job |-> l.item.jobID, attempt |-> l.item.attempt]

\* The failure handled without the status written.
HandleResponse_Failed_NoStatus(w) ==
  /\ pc[w] = "HandleResponse_Failed"
  /\ Goto(w, "HandleResponse_FailedFinish", loc[w])
  /\ UNCHANGED <<store, qvars, now, nextRun, nextUUID, delivered, emitted>>

\* executor.go:892-896
HandleResponse_Failed(w) ==
  /\ pc[w] = "HandleResponse_Failed"
  /\ LET l == loc[w] run == l.item.id.run
     IN  /\ smSetStatus(run, "failed")
         /\ IF smSetStatusErr(run) # "nil"
            THEN Returning(w, l, "err", TRUE)
            ELSE Goto(w, "HandleResponse_FailedFinish", l)
  /\ UNCHANGED <<idem, pauses, qvars, now, nextRun, nextUUID, delivered, emitted>>

\* executor.go:897-910
HandleResponse_FailedFinish(w) ==
  /\ pc[w] = "HandleResponse_FailedFinish"
  /\ LET l == loc[w] run == l.item.id.run
     IN  IF smLoadErr(run) # "nil"
         THEN /\ Returning(w, l, "err", TRUE)
              /\ UNCHANGED emitted
         ELSE /\ emitted' = emitted \cup runFinishHandler(l.item.id, l.resp, Caller(l))
                                   \cup Notify("OnFunctionFinished", run, Caller(l))
              /\ Returning(w, l, "resp", Retryable(l.resp))
  /\ UNCHANGED <<store, qvars, now, nextRun, nextUUID, delivered>>

\* executor.go:919-921: the error becomes the response's, final, and is saved
\* as the output of the response's step; the answer of SaveResponse is dropped.
HandleResponse_CompileError(w) ==
  /\ pc[w] = "HandleResponse_CompileError"
  /\ LET l == loc[w] run == l.item.id.run
     IN  /\ smSaveResponse(run, StepID, l.err)
         /\ Goto(w, "HandleResponse_CompileFailed",
                 [l EXCEPT !.resp = [@ EXCEPT !.err = l.err, !.noRetry = TRUE]])
  /\ UNCHANGED <<idem, pauses, qvars, now, nextRun, nextUUID, delivered, emitted>>

\* executor.go:923-925
HandleResponse_CompileFailed(w) ==
  /\ pc[w] = "HandleResponse_CompileFailed"
  /\ LET l == loc[w] run == l.item.id.run
     IN  /\ smSetStatus(run, "failed")
         /\ IF smSetStatusErr(run) # "nil"
            THEN Returning(w, l, "err", TRUE)
            ELSE Goto(w, "HandleResponse_CompileFinish", l)
  /\ UNCHANGED <<idem, pauses, qvars, now, nextRun, nextUUID, delivered, emitted>>

\* executor.go:926-936
HandleResponse_CompileFinish(w) ==
  /\ pc[w] = "HandleResponse_CompileFinish"
  /\ LET l == loc[w] run == l.item.id.run
     IN  IF smLoadErr(run) # "nil"
         THEN /\ Returning(w, l, "err", TRUE)
              /\ UNCHANGED emitted
         ELSE /\ emitted' = emitted \cup runFinishHandler(l.item.id, l.resp, Caller(l))
                                   \cup Notify("OnFunctionFinished", run, Caller(l))
              /\ Returning(w, l, "nil", FALSE)
  /\ UNCHANGED <<store, qvars, now, nextRun, nextUUID, delivered>>

\* How the handling of a final output ended for the store.
FinalResult(l, res) ==
  [op |-> "HandleResponse", run |-> l.item.id.run, job |-> l.item.jobID,
   attempt |-> l.item.attempt, res |-> res]

\* The final output saved with the duplicate answer ignored.
HandleResponseSaved_IgnoreDuplicate(err) == "saved"

\* executor.go:954-962: what HandleResponse does with SaveResponse's answer.
HandleResponseSaved(err) ==
  IF err = "nil" THEN "saved"
  ELSE IF err = "ErrDuplicateResponse" THEN "duplicate"
  ELSE "error"

\* executor.go:943-962
HandleResponse_Save(w) ==
  /\ pc[w] = "HandleResponse_Save"
  /\ LET l == loc[w] run == l.item.id.run
         err == smSaveResponseErr(run, StepID)
         saved == HandleResponseSaved(err)
     IN  /\ smSaveResponse(run, StepID, l.resp.out)
         /\ IF saved = "duplicate"
            THEN GotoLog(w, "Execute_Return",
                         [l EXCEPT !.path = "duplicate", !.ret = "resp",
                                   !.retry = Retryable(l.resp)],
                         FinalResult(l, "duplicate"))
            ELSE IF saved = "error"
            THEN Returning(w, l, "err", TRUE)
            ELSE Goto(w, "HandleResponse_Finish", l)
  /\ UNCHANGED <<idem, pauses, qvars, now, nextRun, nextUUID, delivered, emitted>>

\* executor.go:963-975
HandleResponse_Finish(w) ==
  /\ pc[w] = "HandleResponse_Finish"
  /\ LET l == loc[w] run == l.item.id.run
     IN  IF smLoadErr(run) # "nil"
         THEN /\ Returning(w, l, "err", TRUE)
              /\ UNCHANGED emitted
         ELSE /\ emitted' = emitted \cup runFinishHandler(l.item.id, l.resp, Caller(l))
              /\ Goto(w, "HandleResponse_Completed", l)
  /\ UNCHANGED <<store, qvars, now, nextRun, nextUUID, delivered>>

\* executor.go:977-981
HandleResponse_Completed(w) ==
  /\ pc[w] = "HandleResponse_Completed"
  /\ LET l == loc[w] run == l.item.id.run
     IN  /\ smSetStatus(run, "completed")
         /\ IF smSetStatusErr(run) # "nil"
            THEN Returning(w, l, "err", TRUE)
            ELSE GotoLog(w, "Execute_Return",
                         [l EXCEPT !.path = "completed", !.ret = "nil", !.retry = FALSE],
                         FinalResult(l, "completed"))
  /\ UNCHANGED <<idem, pauses, qvars, now, nextRun, nextUUID, delivered, emitted>>

\* --------------------------------------------------- HandleGeneratorResponse
\* executor.go:1744-1772: the metadata update a response calls for, Idle for none.
GeneratorUpdate(md, resp) ==
  IF md.rv = -1
  THEN [die |-> (md.die \/ Len(resp.gen) > 1), spanID |-> "", rv |-> resp.rv,
        startedAt |-> 0]
  ELSE IF Len(resp.gen) > 1 /\ ~md.die
  THEN [die |-> TRUE, spanID |-> "", rv |-> resp.rv, startedAt |-> md.startedAt]
  ELSE Idle

\* executor.go:1738-1772
HandleGeneratorResponse_Load(w) ==
  /\ pc[w] = "HandleGeneratorResponse_Load"
  /\ LET l == loc[w] run == l.item.id.run
     IN  IF smLoadErr(run) # "nil"
         THEN Returning(w, l, "err", TRUE)
         ELSE LET m == [l EXCEPT !.md = [runs[run] EXCEPT !.actions = {}]]
              IN  IF GeneratorUpdate(m.md, l.resp) # Idle
                  THEN Goto(w, "HandleGeneratorResponse_Update", m)
                  ELSE Goto(w, HandleGenerator(l.ops), m)
  /\ UNCHANGED <<store, qvars, now, nextRun, nextUUID, delivered, emitted>>

\* executor.go:1773-1785
HandleGeneratorResponse_Update(w) ==
  /\ pc[w] = "HandleGeneratorResponse_Update"
  /\ LET l == loc[w] run == l.item.id.run
     IN  /\ smUpdateMetadata(run, GeneratorUpdate(l.md, l.resp))
         /\ IF smUpdateMetadataErr(run) # "nil"
            THEN Returning(w, l, "err", TRUE)
            ELSE Goto(w, HandleGenerator(l.ops), l)
  /\ UNCHANGED <<idem, pauses, qvars, now, nextRun, nextUUID, delivered, emitted>>

\* executor.go:1832-1839 and 1854: None ends the thread; an unknown opcode is an error.
HandleGenerator_Skip(w) ==
  /\ pc[w] = "HandleGenerator_Skip"
  /\ OpDone(w, loc[w], IF loc[w].ops[1].op = "None" THEN "" ELSE "unknown opcode")
  /\ UNCHANGED <<store, qvars, now, nextRun, nextUUID, delivered, emitted>>

JobID(id, step, suffix) == IdempotencyKey(id) \o <<step, suffix>>

\* executor.go:1859-1875
handleGeneratorStep_Save(w) ==
  /\ pc[w] = "handleGeneratorStep_Save"
  /\ LET l == loc[w] run == l.item.id.run gen == l.ops[1]
     IN  /\ smSaveResponse(run, gen.id, "data")
         /\ IF smSaveResponseErr(run, gen.id) # "nil"
            THEN OpDone(w, l, smSaveResponseErr(run, gen.id))
            ELSE Goto(w, "handleGeneratorStep_Enqueue", l)
  /\ UNCHANGED <<idem, pauses, qvars, now, nextRun, nextUUID, delivered, emitted>>

\* executor.go:1877-1912
handleGeneratorStep_Enqueue(w) ==
  /\ pc[w] = "handleGeneratorStep_Enqueue"
  /\ LET l == loc[w] gen == l.ops[1]
         nextEdge == [outgoing |-> gen.id, incoming |-> l.edge.incoming, gen |-> ""]
         nextItem == Item(JobID(l.item.id, gen.id, ""), "edge", l.item.id,
                          l.maxAttempts, nextEdge, now, NoPause)
     IN  /\ Enqueue(nextItem)
         /\ OpDone(w, l, "")
  /\ UNCHANGED <<store, now, nextRun, nextUUID, delivered, emitted>>

\* executor.go:1896-1911 when the queue refuses the follow-up edge with an error
\* that is not ErrQueueItemExists: the error is returned with the output saved.
\* The queue fails the item's first attempt only.
handleGeneratorStep_EnqueueFails(w) ==
  /\ pc[w] = "handleGeneratorStep_Enqueue"
  /\ loc[w].item.attempt = 0
  /\ OpDone(w, loc[w], "enqueue error")
  /\ UNCHANGED <<store, qvars, now, nextRun, nextUUID, delivered, emitted>>

\* executor.go:1939-1949: a step error is retried unless its user error says
\* NoRetry or this was the item's last attempt.
StepErrorRetryable_Always(gen, attempt, maxAttempts) == TRUE
StepErrorRetryable(gen, attempt, maxAttempts) ==
  ~gen.noRetry /\ ShouldRetry(attempt, maxAttempts)

\* executor.go:1914-1958
handleStepError(w) ==
  /\ pc[w] = "handleStepError"
  /\ LET l == loc[w] gen == l.ops[1]
     IN  IF StepErrorRetryable(gen, l.item.attempt, l.maxAttempts)
         THEN /\ emitted' = emitted \cup RetryScheduled(l.item)
              /\ OpDone(w, l, "ErrHandledStepError")
         ELSE /\ UNCHANGED emitted
              /\ Goto(w, "handleStepError_Save", l)
  /\ UNCHANGED <<store, qvars, now, nextRun, nextUUID, delivered>>

\* The failed step's error, saved or not, is followed by the error edge.
handleStepError_Save_Anyway(w) ==
  /\ pc[w] = "handleStepError_Save"
  /\ smSaveResponse(loc[w].item.id.run, loc[w].ops[1].id, "error")
  /\ Goto(w, "handleStepError_Enqueue", loc[w])
  /\ UNCHANGED <<idem, pauses, qvars, now, nextRun, nextUUID, delivered, emitted>>

\* executor.go:1960-1972: the error is the step's output, wrapped in "error".
handleStepError_Save(w) ==
  /\ pc[w] = "handleStepError_Save"
  /\ LET l == loc[w] run == l.item.id.run gen == l.ops[1]
     IN  /\ smSaveResponse(run, gen.id, "error")
         /\ IF smSaveResponseErr(run, gen.id) # "nil"
            THEN OpDone(w, l, smSaveResponseErr(run, gen.id))
            ELSE Goto(w, "handleStepError_Enqueue", l)
  /\ UNCHANGED <<idem, pauses, qvars, now, nextRun, nextUUID, delivered, emitted>>

\* executor.go:1974-2008
handleStepError_Enqueue(w) ==
  /\ pc[w] = "handleStepError_Enqueue"
  /\ LET l == loc[w] gen == l.ops[1]
         nextEdge == [outgoing |-> gen.id, incoming |-> l.edge.incoming, gen |-> ""]
         nextItem == Item(JobID(l.item.id, gen.id, "failure"), "edge_error", l.item.id,
                          l.maxAttempts, nextEdge, now, NoPause)
     IN  /\ Enqueue(nextItem)
         /\ emitted' = IF EnqueueErr(nextItem) = "ErrQueueItemExists" THEN emitted
                       ELSE emitted \cup Notify("OnStepScheduled", l.item.id.run,
                                                [job |-> nextItem.jobID, attempt |-> 0])
         /\ OpDone(w, l, "")
  /\ UNCHANGED <<store, now, nextRun, nextUUID, delivered>>

\* executor.go:2011-2059
handleGeneratorStepPlanned(w) ==
  /\ pc[w] = "handleGeneratorStepPlanned"
  /\ LET l == loc[w] gen == l.ops[1]
         nextEdge == [outgoing |-> l.edge.outgoing, incoming |-> l.edge.incoming,
                      gen |-> gen.id]
         nextItem == Item(JobID(l.item.id, gen.id, "plan"), "edge", l.item.id,
                          l.maxAttempts, nextEdge, now, NoPause)
     IN  /\ Enqueue(nextItem)
         /\ OpDone(w, l, "")
  /\ UNCHANGED <<store, now, nextRun, nextUUID, delivered, emitted>>


\* The pause of a step: its id is the version 5 UUID of the run id and step id
\* (executor.go:2163-2166 and 2310-2313).
PauseID_Random(id, step) == <<"v4", UUIDNames[nextUUID + Cardinality(DOMAIN pauses) + 1]>>
PauseID(id, step) == <<"v5", RunIDString(id.run), step>>

\* Opcode options of the function's steps: what "w" waits for, when either
\* step gives up.
WaitEvent == "go"
\* opts.If of the wait, "" for none; and what compiling it answers.
WaitIf(gen) == IF gen.id = "x" THEN "event.data.a ==" ELSE ""
Compile(expr) == IF expr = "event.data.a ==" THEN ErrCompile ELSE ""
StepExpires == now
\* opts.Expires(): the time the step's timeout ends, per function.
Expires(fn) == IF fn = "f7" THEN now + 1 ELSE StepExpires

\* executor.go:2352-2368
WaitForEventPause(l, gen) ==
  [id |-> PauseID(l.item.id, gen.id), run |-> l.item.id, group |-> "",
   outgoing |-> gen.id, incoming |-> l.edge.incoming, opcode |-> gen.op,
   expires |-> Expires(l.item.id.fn), event |-> WaitEvent,
   expr |-> <<>>,
   dataKey |-> gen.id, cancel |-> FALSE, onTimeout |-> FALSE,
   trigger |-> "", corr |-> <<>>, leased |-> FALSE]

\* executor.go:2156-2223
InvokeFunctionPause(l, gen) ==
  LET correlationID == <<RunIDString(l.item.id.run), gen.id>>
  IN  [id |-> PauseID(l.item.id, gen.id), run |-> l.item.id, group |-> "",
       outgoing |-> gen.id, incoming |-> l.edge.incoming, opcode |-> gen.op,
       expires |-> Expires(l.item.id.fn), event |-> FnFinishedName,
       expr |-> <<<<Correlates(correlationID)>>>>,
       dataKey |-> gen.id, cancel |-> FALSE, onTimeout |-> FALSE,
       trigger |-> "invocation", corr |-> correlationID,
       leased |-> FALSE]

\* The job that times the pause out, executor.go:2228-2241 and 2375-2389.
TimeoutItem(l, pause, suffix) ==
  Item(JobID(l.item.id, pause.dataKey, suffix), "pause", l.item.id,
       DefaultMaxAttempts, NoEdge, pause.expires, pause.id)

\* executor.go:2287-2298 and 2352-2373
handleGeneratorWaitForEvent_SavePause(w) ==
  /\ pc[w] = "handleGeneratorWaitForEvent_SavePause"
  /\ LET l == loc[w]
         pause == WaitForEventPause(l, l.ops[1])
     IN  IF Compile(WaitIf(l.ops[1])) # ""
         THEN /\ OpDone(w, l, Compile(WaitIf(l.ops[1])))
              /\ UNCHANGED pauses
         ELSE /\ smSavePause(pause)
              /\ IF smSavePauseErr(pause) = "ErrPauseAlreadyExists"
                 THEN OpDone(w, [l EXCEPT !.resaved = TRUE, !.pause = pause], "")
                 ELSE Goto(w, "handleGeneratorWaitForEvent_Enqueue", [l EXCEPT !.pause = pause])
  /\ UNCHANGED <<runs, idem, qvars, now, nextRun, nextUUID, delivered, emitted>>

\* executor.go:2375-2403
handleGeneratorWaitForEvent_Enqueue(w) ==
  /\ pc[w] = "handleGeneratorWaitForEvent_Enqueue"
  /\ LET l == loc[w]
     IN  /\ Enqueue(TimeoutItem(l, l.pause, "wait"))
         /\ OpDone(w, l, "")
  /\ UNCHANGED <<store, now, nextRun, nextUUID, delivered, emitted>>

\* executor.go:2375-2403 when the queue refuses the item with an error that is
\* not ErrQueueItemExists: nothing is enqueued and the error is returned.
handleGeneratorWaitForEvent_EnqueueFails(w) ==
  /\ pc[w] = "handleGeneratorWaitForEvent_Enqueue"
  /\ OpDone(w, loc[w], "enqueue error")
  /\ UNCHANGED <<store, qvars, now, nextRun, nextUUID, delivered, emitted>>

\* The handler without its SavePause: the timeout job and the invocation event
\* go out for a pause that is not stored.
handleGeneratorInvokeFunction_NoSave(w) ==
  /\ pc[w] = "handleGeneratorInvokeFunction_SavePause"
  /\ LET l == loc[w]
         pause == InvokeFunctionPause(l, l.ops[1])
     IN  Goto(w, "handleGeneratorInvokeFunction_Enqueue", [l EXCEPT !.pause = pause])
  /\ UNCHANGED <<store, qvars, now, nextRun, nextUUID, delivered, emitted>>

\* executor.go:2205-2232
handleGeneratorInvokeFunction_SavePause(w) ==
  /\ pc[w] = "handleGeneratorInvokeFunction_SavePause"
  /\ LET l == loc[w]
         pause == InvokeFunctionPause(l, l.ops[1])
     IN  /\ smSavePause(pause)
         /\ IF smSavePauseErr(pause) = "ErrPauseAlreadyExists"
            THEN OpDone(w, [l EXCEPT !.resaved = TRUE, !.pause = pause], "")
            ELSE Goto(w, "handleGeneratorInvokeFunction_Enqueue", [l EXCEPT !.pause = pause])
  /\ UNCHANGED <<runs, idem, qvars, now, nextRun, nextUUID, delivered, emitted>>

\* executor.go:2234-2253
handleGeneratorInvokeFunction_Enqueue(w) ==
  /\ pc[w] = "handleGeneratorInvokeFunction_Enqueue"
  /\ LET l == loc[w]
         item == TimeoutItem(l, l.pause, "invoke")
     IN  /\ Enqueue(item)
         /\ IF EnqueueErr(item) = "ErrQueueItemExists"
            THEN OpDone(w, l, "")
            ELSE Goto(w, "handleGeneratorInvokeFunction_Send", l)
  /\ UNCHANGED <<store, now, nextRun, nextUUID, delivered, emitted>>

\* executor.go:2255-2273: the invocation event is published.
handleGeneratorInvokeFunction_Send(w) ==
  /\ pc[w] = "handleGeneratorInvokeFunction_Send"
  /\ LET l == loc[w]
     IN  /\ emitted' = emitted \cup {[name |-> "inngest/function.invoked",
                                     run |-> l.item.id.run, err |-> "",
                                     by |-> [job |-> l.pause.corr, attempt |-> 0]]}
         /\ OpDone(w, l, "")
  /\ UNCHANGED <<store, qvars, now, nextRun, nextUUID, delivered>>

\* executor.go:2261-2266: publishing fails; the pause and the timeout job stay,
\* and the error goes back to the queue, which retries the item.
handleGeneratorInvokeFunction_SendFails(w) ==
  /\ pc[w] = "handleGeneratorInvokeFunction_Send"
  /\ OpDone(w, loc[w], "error publishing internal invocation event")
  /\ UNCHANGED <<store, qvars, now, nextRun, nextUUID, delivered, emitted>>

\* ------------------------------------------------------------------- Cancel
\* A returned Cancel: was is the status the call found, "active" for a run
\* that had not ended (the only runs a call gets past executor.go:1570 for),
\* "deleted" when Load found no state.
CancelResult(run, was, res) == [op |-> "Cancel", run |-> run, was |-> was, res |-> res]

\* What a pause handler does with Cancel's answer.  executor.go:1304-1315: the
\* naive strategy ignores an ended run, reports an error that does not speak of
\* missing metadata, and consumes the pause otherwise.  executor.go:1443-1462:
\* the aggregate strategy ignores an ended run and missing metadata, reports any
\* other error, and consumes the pause otherwise.
AfterCancel(from, err) ==
  IF err = "ErrFunctionEnded" THEN "ignore"
  ELSE IF from = "handlePausesAllNaively"
  THEN (IF err # "nil" /\ err # ErrNoStatus THEN "error" ELSE "consume")
  ELSE (IF err = ErrNoStatus THEN "ignore" ELSE IF err # "nil" THEN "error" ELSE "consume")

\* Cancel returns res, to the API's caller or to the pause handler that called it.
CancelReturn(w, l, res) ==
  IF l.parent = Idle
  THEN Return(w, CancelResult(l.id.run, "active", res))
  ELSE IF AfterCancel(l.parent.from, res) = "consume"
  THEN Goto(w, "HandlePauses_Consume", l.parent)
  ELSE Return(w, [op |-> l.parent.from, evt |-> l.parent.evt,
                  pause |-> l.parent.pause.id,
                  res |-> IF AfterCancel(l.parent.from, res) = "error" THEN "error"
                          ELSE IF res = ErrNoStatus THEN "ignored" ELSE "ended"])

\* executor.go:1558-1569
Cancel_Load(w, run) ==
  /\ CanStart(w)
  /\ run \in DOMAIN runs
  /\ delivered.cancel < MaxCancels
  /\ delivered' = [delivered EXCEPT !.cancel = @ + 1]
  /\ IF smLoadErr(run) # "nil"
     THEN Return(w, CancelResult(run, "deleted", "err"))
     ELSE IF runs[run].status \in {"failed", "completed", "overflowed"}
     THEN Return(w, CancelResult(run, runs[run].status, "ErrFunctionEnded"))
     ELSE IF runs[run].status = "cancelled"
     THEN Return(w, CancelResult(run, runs[run].status, "nil"))
     ELSE Goto(w, "Cancel_Cancel", [op |-> "Cancel", id |-> runs[run].id, parent |-> Idle])
  /\ UNCHANGED <<store, qvars, now, nextRun, nextUUID, emitted>>

\* executor.go:1571-1573
Cancel_Cancel(w) ==
  /\ pc[w] = "Cancel_Cancel"
  /\ LET run == loc[w].id.run
     IN  /\ smCancel(run)
         /\ IF smCancelErr(run) # "nil"
            THEN CancelReturn(w, loc[w], "err")
            ELSE Goto(w, "Cancel_Delete", loc[w])
  /\ UNCHANGED <<idem, pauses, qvars, now, nextRun, nextUUID, delivered, emitted>>

CancelledResponse == [err |-> "function cancelled", noRetry |-> TRUE, gen |-> <<>>,
                      out |-> "", rv |-> 1]

\* Cancel as the sender of what it emits.
CancelBy == [job |-> <<"Cancel">>, attempt |-> 0]

\* executor.go:1576-1578
Cancel_Delete(w) ==
  /\ pc[w] = "Cancel_Delete"
  /\ smDelete(loc[w].id.run)
  /\ Goto(w, "Cancel_Finish", loc[w])
  /\ UNCHANGED <<idem, pauses, qvars, now, nextRun, nextUUID, delivered, emitted>>

\* executor.go:1581-1586
Cancel_Finish(w) ==
  /\ pc[w] = "Cancel_Finish"
  /\ emitted' = emitted \cup runFinishHandler(loc[w].id, CancelledResponse, CancelBy)
  /\ Goto(w, "Cancel_Notify", loc[w])
  /\ UNCHANGED <<store, qvars, now, nextRun, nextUUID, delivered>>

\* executor.go:1588-1593
Cancel_Notify(w) ==
  /\ pc[w] = "Cancel_Notify"
  /\ emitted' = emitted \cup Notify("OnFunctionCancelled", loc[w].id.run, CancelBy)
  /\ CancelReturn(w, loc[w], "nil")
  /\ UNCHANGED <<store, qvars, now, nextRun, nextUUID, delivered>>

\* ------------------------------------------------------------ HandlePauses
\* pause.Expires.Time().Before(time.Now())
Expired_Never(p) == FALSE
Expired(p) == p.expires < now

\* The self-cancellation guard, executor.go:1245 and 1415.
TriggeredBy_Nothing(p, e) == FALSE
TriggeredBy(p, e) == p.trigger = e

\* The pause's expression on the event: the ts clause of a cancellation, the
\* correlation id of an invocation.
Holds(atom, e) ==
  CASE atom.kind = "data" -> atom.s[1] \in EventData(e)
    [] atom.kind = "ts" -> EventTs(e) = 0 \/ EventTs(e) > atom.n
    [] atom.kind = "corr" -> CorrelationID(e) = atom.s
Evaluate(expr, e) ==
  \/ expr = <<>>
  \/ \E i \in DOMAIN expr : \A j \in DOMAIN expr[i] : Holds(expr[i][j], e)

\* iter.Count(): the pauses waiting for the event's name, extra of them of
\* functions that are not modelled.
Count(e, extra) ==
  Cardinality({id \in DOMAIN pauses : pauses[id].event = EventName(e)}) + extra

PauseResult(l, res) == [op |-> l.from, evt |-> l.evt, pause |-> l.pause.id, res |-> res]

\* One pause of the event: executor.go:1235-1247 (naive) and 1405-1417 (aggregate).
HandlePause(w, e, id, from) ==
  /\ CanStart(w)
  /\ id \in DOMAIN pauses
  /\ pauses[id].event = EventName(e)
  /\ <<e, id>> \notin delivered.seen
  /\ delivered' = [delivered EXCEPT !.seen = @ \cup {<<e, id>>}]
  /\ LET p == pauses[id]
         l == [op |-> "HandlePauses", from |-> from, evt |-> e, pause |-> p,
               began |-> now, item |-> Idle]
     IN  IF Expired(p)
         THEN /\ smDeletePause(id)
              /\ Return(w, PauseResult(l, "expired"))
         ELSE /\ UNCHANGED pauses
              /\ IF TriggeredBy(p, e)
                 THEN Return(w, PauseResult(l, "self"))
                 ELSE IF p.cancel
                 THEN Goto(w, "HandlePauses_Exists", l)
                 ELSE IF from = "handlePausesAllNaively" /\ ~Evaluate(p.expr, e)
                 THEN Return(w, PauseResult(l, "nomatch"))
                 ELSE Goto(w, "Resume_Lease", l)
  /\ UNCHANGED <<runs, idem, qvars, now, nextRun, nextUUID, emitted>>

\* executor.go:1164-1181 and 1184-1247: few pauses wait, each is looked at.
handlePausesAllNaively(w, e, id, extra) ==
  /\ Count(e, extra) <= PauseThreshold
  /\ HandlePause(w, e, id, "handlePausesAllNaively")

\* executor.go:1164-1174 and 1362-1417: many pauses wait, the aggregator picks
\* those whose expression the event meets.
handleAggregatePauses(w, e, id, extra) ==
  /\ Count(e, extra) > PauseThreshold
  /\ id \in DOMAIN pauses
  /\ Evaluate(pauses[id].expr, e)
  /\ HandlePause(w, e, id, "handleAggregatePauses")

\* executor.go:1249-1288 and 1419-1431: a cancellation of a run that is gone is
\* deleted; the naive strategy evaluates the expression.
HandlePauses_Exists(w) ==
  /\ pc[w] = "HandlePauses_Exists"
  /\ LET l == loc[w]
     IN  IF ~smExists(l.pause.run.run)
         THEN /\ smDeletePause(l.pause.id)
              /\ Return(w, PauseResult(l, "gone"))
         ELSE /\ UNCHANGED pauses
              /\ IF l.from = "handlePausesAllNaively" /\ ~Evaluate(l.pause.expr, l.evt)
                 THEN Return(w, PauseResult(l, "nomatch"))
                 ELSE Goto(w, "HandlePauses_Cancel", l)
  /\ UNCHANGED <<runs, idem, qvars, now, nextRun, nextUUID, delivered, emitted>>

\* executor.go:1294-1307 and 1437-1457, into Cancel (executor.go:1558-1569).
HandlePauses_Cancel(w) ==
  /\ pc[w] = "HandlePauses_Cancel"
  /\ LET l == loc[w]
         run == l.pause.run.run
         call == [op |-> "Cancel", id |-> l.pause.run, parent |-> l]
     IN  IF smLoadErr(run) # "nil"
         THEN CancelReturn(w, call, smLoadErr(run))
         ELSE IF runs[run].status \in {"failed", "completed", "overflowed"}
         THEN CancelReturn(w, call, "ErrFunctionEnded")
         ELSE IF runs[run].status = "cancelled"
         THEN CancelReturn(w, call, "nil")
         ELSE Goto(w, "Cancel_Cancel", call)
  /\ UNCHANGED <<store, qvars, now, nextRun, nextUUID, delivered, emitted>>

\* executor.go:1308-1315 and 1458-1466
HandlePauses_Consume(w) ==
  /\ pc[w] = "HandlePauses_Consume"
  /\ smConsumePause(loc[w].pause.id, "")
  /\ Return(w, PauseResult(loc[w], "cancelled"))
  /\ UNCHANGED <<idem, qvars, now, nextRun, nextUUID, delivered, emitted>>

\* executor.go:1498-1555
HandleInvokeFinish(w, e) ==
  /\ CanStart(w)
  /\ CorrelationID(e) # <<>>
  /\ <<e, <<"finish">>>> \notin delivered.seen
  /\ delivered' = [delivered EXCEPT !.seen = @ \cup {<<e, <<"finish">>>>}]
  /\ LET found == PauseByInvokeCorrelationID(CorrelationID(e))
     IN  IF found = {}
         THEN /\ Return(w, [op |-> "HandleInvokeFinish", evt |-> e, pause |-> <<>>,
                            res |-> "missing"])
              /\ UNCHANGED pauses
         ELSE LET id == CHOOSE x \in found : TRUE
                  p == pauses[id]
                  l == [op |-> "HandlePauses", from |-> "HandleInvokeFinish", evt |-> e,
                        pause |-> p, began |-> now, item |-> Idle]
              IN  IF Expired(p)
                  THEN /\ smDeletePause(id)
                       /\ Return(w, PauseResult(l, "expired"))
                  ELSE /\ UNCHANGED pauses
                       /\ Goto(w, "Resume_Lease", l)
  /\ UNCHANGED <<runs, idem, qvars, now, nextRun, nextUUID, emitted>>

\* The queue's pause job: the pause, if it is still there, is resumed without
\* an event.
PauseTimeout(w) ==
  /\ CanStart(w)
  /\ \E item \in queue :
       /\ item.kind = "pause"
       /\ item.at <= now
       /\ queue' = queue \ {item}
       /\ IF item.pauseID \notin DOMAIN pauses
          THEN Return(w, [op |-> "PauseTimeout", evt |-> "", pause |-> item.pauseID,
                          res |-> "missing"])
          ELSE Goto(w, "Resume_Lease",
                    [op |-> "HandlePauses", from |-> "PauseTimeout", evt |-> "",
                     pause |-> pauses[item.pauseID], began |-> now, item |-> item])
  /\ UNCHANGED <<store, jobs, now, nextRun, nextUUID, delivered, emitted>>

\* ------------------------------------------------ the fan-out of HandlePauses
\* One HandlePauses call starts a goroutine per pause (executor.go:1208-1349 and
\* 1384-1486).  The goroutines of a call are counted by where they are: started
\* and before the write of ctx, or past that write and before their Cancel or
\* Resume.  ctx is the one variable of the enclosing function, shared by the
\* goroutines: last tells that the goroutine that wrote it last has not made
\* its call yet.
InFlight(l) == l.started + l.set

\* executor.go:1168-1176: the strategy by the number of pauses waiting.
Strategy(n) == IF n > PauseThreshold THEN "aggregate" ELSE "naive"

HandlePauses_FanOut(w, n) ==
  /\ CanStart(w)
  /\ Goto(w, "FanOut", [op |-> "FanOut", strategy |-> Strategy(n), total |-> n,
                        spawned |-> 0, started |-> 0, set |-> 0, last |-> FALSE])
  /\ UNCHANGED <<store, qvars, now, nextRun, nextUUID, delivered, emitted>>

\* executor.go:1208-1218: the naive loop acquires the semaphore before each
\* goroutine; executor.go:1384-1394: the aggregate loop starts them as they come.
FanOut_Go(w) ==
  /\ pc[w] = "FanOut"
  /\ LET l == loc[w]
     IN  /\ l.spawned < l.total
         /\ l.strategy = "naive" => InFlight(l) < PauseHandleConcurrency
         /\ Goto(w, "FanOut", [l EXCEPT !.spawned = @ + 1, !.started = @ + 1])
  /\ UNCHANGED <<store, qvars, now, nextRun, nextUUID, delivered, emitted>>

\* executor.go:1238-1293 and 1405-1431: a pause that is expired, is the event's
\* own, belongs to a run that is gone or does not match ends its goroutine.
FanOut_Skip(w) ==
  /\ pc[w] = "FanOut"
  /\ LET l == loc[w]
     IN  /\ l.started > 0
         /\ Goto(w, "FanOut", [l EXCEPT !.started = @ - 1])
  /\ UNCHANGED <<store, qvars, now, nextRun, nextUUID, delivered, emitted>>

\* executor.go:1297 and 1436: ctx = state.WithGroupID(ctx, pause.GroupID).
FanOut_WithGroupID(w) ==
  /\ pc[w] = "FanOut"
  /\ LET l == loc[w]
     IN  /\ l.started > 0
         /\ Goto(w, "FanOut", [l EXCEPT !.started = @ - 1, !.set = @ + 1, !.last = TRUE])
  /\ UNCHANGED <<store, qvars, now, nextRun, nextUUID, delivered, emitted>>

\* executor.go:1300-1349 and 1439-1485: the goroutine reads ctx and calls Cancel
\* or Resume with it, then ends and releases its place.  own: ctx still holds
\* the group this goroutine wrote.
FanOut_Call(w, own) ==
  /\ pc[w] = "FanOut"
  /\ LET l == loc[w]
     IN  /\ IF own THEN l.last ELSE l.set > (IF l.last THEN 1 ELSE 0)
         /\ GotoLog(w, "FanOut", [l EXCEPT !.set = @ - 1, !.last = @ /\ ~own],
                    [op |-> "PauseCall", strategy |-> l.strategy, own |-> own])
  /\ UNCHANGED <<store, qvars, now, nextRun, nextUUID, delivered, emitted>>

\* executor.go:1353-1359 and 1487-1489: wg.Wait() returns.
FanOut_Wait(w) ==
  /\ pc[w] = "FanOut"
  /\ loc[w].spawned = loc[w].total
  /\ InFlight(loc[w]) = 0
  /\ Return(w, [op |-> "HandlePauses", strategy |-> loc[w].strategy,
                handled |-> loc[w].total])
  /\ UNCHANGED <<store, qvars, now, nextRun, nextUUID, delivered, emitted>>

\* ------------------------------------------------------------------- Resume
\* executor.go:1606-1610: only the caller that got the lease goes on.
Leased(err) == err = "nil"

\* executor.go:1597-1610
Resume_Lease(w) ==
  /\ pc[w] = "Resume_Lease"
  /\ LET l == loc[w]
         err == smLeasePauseErr(l.pause.id)
     IN  /\ smLeasePause(l.pause.id)
         /\ IF Leased(err)
            THEN Goto(w, "Resume_Consume", [lease |-> err] @@ l)
            ELSE Return(w, PauseResult(l, err))
  /\ UNCHANGED <<runs, idem, qvars, now, nextRun, nextUUID, delivered, emitted>>

\* Resume without ConsumePause: the continuation is enqueued at once.
Resume_Consume_Skip(w) ==
  /\ pc[w] = "Resume_Consume"
  /\ Goto(w, "Resume_Enqueue", loc[w])
  /\ UNCHANGED <<store, qvars, now, nextRun, nextUUID, delivered, emitted>>

\* executor.go:1612-1625: the pause is consumed with the event as its data.
\* executor.go:1606-1610 when LeasePause fails with an error that is neither
\* ErrPauseLeased nor ErrPauseNotFound: no lease is taken, the error is not
\* looked at, and Resume goes on.
Resume_LeaseFails(w) ==
  /\ pc[w] = "Resume_Lease"
  /\ Goto(w, "Resume_Consume", [lease |-> "lease error"] @@ loc[w])
  /\ UNCHANGED <<store, qvars, now, nextRun, nextUUID, delivered, emitted>>

Resume_Consume(w) ==
  /\ pc[w] = "Resume_Consume"
  /\ LET l == loc[w]
         err == smConsumePauseErr(l.pause.id)
     IN  IF l.pause.onTimeout /\ l.evt # ""
         THEN /\ smConsumePause(l.pause.id, "")
              /\ Return(w, PauseResult(l, IF err = "nil" THEN "consumed" ELSE err))
              /\ UNCHANGED queue
         ELSE /\ smConsumePause(l.pause.id, l.evt)
              /\ IF err = "nil"
                 THEN /\ Goto(w, "Resume_Enqueue", l)
                      /\ UNCHANGED queue
                 ELSE /\ Return(w, PauseResult(l, "error"))
                      /\ queue' = queue \cup (IF l.item = Idle THEN {}
                                              ELSE Requeue(l.item, TRUE))
  /\ UNCHANGED <<idem, jobs, now, nextRun, nextUUID, delivered, emitted>>

\* executor.go:1636-1656
ResumeItem(p) ==
  Item(JobID(p.run, p.dataKey, ""), "edge", p.run, DefaultMaxAttempts,
       [outgoing |-> p.outgoing, incoming |-> p.incoming, gen |-> ""], now, NoPause)

\* executor.go:1661 and 1725-1732: what the listeners are told of the resumed pause.
Resumed(p) ==
  Notify(IF p.opcode = "InvokeFunction" THEN "OnInvokeFunctionResumed"
         ELSE "OnWaitForEventResumed",
         p.run.run, [job |-> ResumeItem(p).jobID, attempt |-> 0])

\* executor.go:1641-1735: the continuation is enqueued; that it exists is fine.
\* executor.go:1643-1660 when the queue refuses the edge with an error that is
\* not ErrQueueItemExists: the error is returned, and the queue retries the
\* timeout job if that is the caller.
Resume_EnqueueFails(w) ==
  /\ pc[w] = "Resume_Enqueue"
  /\ queue' = queue \cup (IF loc[w].item = Idle THEN {} ELSE Requeue(loc[w].item, TRUE))
  /\ Return(w, PauseResult(loc[w], "error enqueueing after pause"))
  /\ UNCHANGED <<store, jobs, now, nextRun, nextUUID, delivered, emitted>>

Resume_Enqueue(w) ==
  /\ pc[w] = "Resume_Enqueue"
  /\ Enqueue(ResumeItem(loc[w].pause))
  /\ emitted' = emitted \cup Resumed(loc[w].pause)
  /\ Return(w, PauseResult(loc[w], "resumed"))
  /\ UNCHANGED <<store, now, nextRun, nextUUID, delivered>>

\* ------------------------------------------------------------------- time
Tick ==
  /\ now < MaxTime
  /\ now' = now + 1
  /\ UNCHANGED <<store, qvars, nextRun, nextUUID, delivered, pc, loc, hist, emitted>>

\* -------------------------------------------------------- specifications
Init ==
  /\ runs = [x \in {} |-> Idle]
  /\ idem = {}
  /\ pauses = [x \in {} |-> Idle]
  /\ queue = {}
  /\ jobs = {}
  /\ now = 1
  /\ nextRun = 0
  /\ nextUUID = 0
  /\ delivered = [cancel |-> 0, seen |-> {}]
  /\ pc = [w \in Threads |-> "idle"]
  /\ loc = [w \in Threads |-> Idle]
  /\ hist = {}
  /\ emitted = {}

\* Any sequence of Schedule calls, concurrent ones included.
NextSchedule ==
  \/ \E w \in Workers, req \in ScheduleRequests : Schedule_New(w, req)
  \/ \E w \in Workers : Schedule_SavePause(w)
  \/ \E w \in Workers : Schedule_Enqueue(w)

SpecSchedule == Init /\ [][NextSchedule]_vars

\* -------------------------------------------- specification: step execution
\* One function and one event; the run is executed and may be cancelled once.
ExecuteRequests ==
  [fn : {"f2"}, events : {<<"e1">>}, idem : {""}, orig : {FALSE},
   batch : {""}, prevent : {FALSE}, pausedAt : {-1}]

DriverResponses ==
  { Final,
    Response("boom", FALSE, <<>>, ""),
    Response("", FALSE, <<Op("StepPlanned", "a"), Op("StepPlanned", "b")>>, ""),
    Response("", FALSE, <<Op("Step", "a")>>, ""),
    Response("", FALSE, <<Op("Step", "b")>>, ""),
    Response("", FALSE, <<Op("Step", "a"), Op("Unknown", "")>>, ""),
    Response("", FALSE, <<Op("None", "")>>, "") }

Handlers(w) ==
  \/ Execute_Load(w)
  \/ Execute_Start(w)
  \/ Execute_Return(w)
  \/ HandleResponse_Failed(w)
  \/ HandleResponse_FailedFinish(w)
  \/ HandleResponse_Save(w)
  \/ HandleResponse_Finish(w)
  \/ HandleResponse_Completed(w)
  \/ HandleGeneratorResponse_Load(w)
  \/ HandleGeneratorResponse_Update(w)
  \/ HandleGenerator_Skip(w)
  \/ handleGeneratorStep_Save(w)
  \/ handleGeneratorStep_Enqueue(w)
  \/ handleGeneratorStepPlanned(w)

NextExecute ==
  \/ \E req \in ExecuteRequests : Schedule_New(API, req)
  \/ Schedule_SavePause(API)
  \/ Schedule_Enqueue(API)
  \/ \E w \in Workers : Handlers(w)
  \/ \E w \in Workers, r \in DriverResponses : Execute_Run(w, r)
  \/ \E run \in RunIds : delivered.cancel = 0 /\ Cancel_Load(API, run)
  \/ Cancel_Cancel(API)
  \/ Cancel_Delete(API)
  \/ Cancel_Finish(API)
  \/ Cancel_Notify(API)

SpecExecute == Init /\ [][NextExecute]_vars


\* ------------------------------------------------- specification: pauses
\* One run of f4, started by e1: it waits for an event or for an invoked
\* function; events, the pause's timeout job and the clock race for its pauses.
PauseRequests ==
  [fn : {"f4"}, events : {<<"e1">>}, idem : {""}, orig : {FALSE},
   batch : {""}, prevent : {FALSE}, pausedAt : {-1}]

PauseResponses ==
  { Final,
    Response("", FALSE, <<Op("WaitForEvent", "w")>>, ""),
    Response("", FALSE, <<Op("InvokeFunction", "i")>>, "") }

OtherPauses == {0, PauseThreshold}

PauseHandlers(w) ==
  \/ Execute_Load(w)
  \/ Execute_Start(w)
  \/ Execute_Return(w)
  \/ HandleResponse_Save(w)
  \/ HandleResponse_Finish(w)
  \/ HandleResponse_Completed(w)
  \/ HandleGeneratorResponse_Load(w)
  \/ HandleGeneratorResponse_Update(w)
  \/ handleGeneratorWaitForEvent_SavePause(w)
  \/ handleGeneratorWaitForEvent_Enqueue(w)
  \/ handleGeneratorInvokeFunction_SavePause(w)
  \/ handleGeneratorInvokeFunction_Enqueue(w)
  \/ handleGeneratorInvokeFunction_Send(w)
  \/ PauseTimeout(w)
  \/ Resume_Lease(w)
  \/ Resume_Consume(w)
  \/ Resume_Enqueue(w)

NextPause ==
  \/ \E req \in PauseRequests : Schedule_New(API, req)
  \/ Schedule_SavePause(API)
  \/ Schedule_Enqueue(API)
  \/ \E w \in Workers : PauseHandlers(w)
  \/ \E w \in Workers, r \in PauseResponses : Execute_Run(w, r)
  \/ \E w \in Workers, e \in EventIds, id \in DOMAIN pauses, extra \in OtherPauses :
       handlePausesAllNaively(w, e, id, extra)
  \/ \E w \in Workers, e \in EventIds, id \in DOMAIN pauses, extra \in OtherPauses :
       handleAggregatePauses(w, e, id, extra)
  \/ \E w \in Workers, e \in EventIds : HandleInvokeFinish(w, e)
  \/ Tick

SpecPause == Init /\ [][NextPause]_vars

\* ------------------------------------------- specification: cancellations
\* One run of f1, started by e1: its cancellation pause waits for "go" events,
\* among few or many other pauses, while the run executes.
CancelRequests ==
  [fn : {"f1"}, events : {<<"e1">>}, idem : {""}, orig : {FALSE},
   batch : {""}, prevent : {FALSE}, pausedAt : {-1}]

\* The run's own event, a later "go" and one from before the run.
CancelEvents == {"e1", "e2", "e4"}

CancelHandlers(w) ==
  \/ Execute_Load(w)
  \/ Execute_Start(w)
  \/ Execute_Return(w)
  \/ HandleResponse_Save(w)
  \/ HandleResponse_Finish(w)
  \/ HandleResponse_Completed(w)
  \/ HandlePauses_Exists(w)
  \/ HandlePauses_Cancel(w)
  \/ HandlePauses_Consume(w)
  \/ Cancel_Cancel(w)
  \/ Cancel_Delete(w)
  \/ Cancel_Finish(w)
  \/ Cancel_Notify(w)

NextCancel ==
  \/ \E req \in CancelRequests : Schedule_New(API, req)
  \/ Schedule_SavePause(API)
  \/ Schedule_Enqueue(API)
  \/ \E w \in Workers : CancelHandlers(w)
  \/ \E w \in Workers : Execute_Run(w, Final)
  \/ \E w \in Workers, e \in CancelEvents, id \in DOMAIN pauses, extra \in OtherPauses :
       handlePausesAllNaively(w, e, id, extra)
  \/ \E w \in Workers, e \in CancelEvents, id \in DOMAIN pauses, extra \in OtherPauses :
       handleAggregatePauses(w, e, id, extra)
  \/ Tick

SpecCancel == Init /\ [][NextCancel]_vars

\* ------------------- specification: cancellation by event and by the API
\* The run of f1 again: a later "go" event reaches its cancellation pause while
\* the API cancels the run.
\* One run of f1, started by e1 or by the finish event e3, is cancelled by the
\* event e2 and by calls of the API.
CancelAPIRequests ==
  [fn : {"f1"}, events : {<<"e1">>, <<"e3">>}, idem : {""}, orig : {FALSE},
   batch : {""}, prevent : {FALSE}, pausedAt : {-1}]

NextCancelAPI ==
  \/ \E req \in CancelAPIRequests : nextRun = 0 /\ Schedule_New(API, req)
  \/ Schedule_SavePause(API)
  \/ Schedule_Enqueue(API)
  \/ \E w \in Workers : CancelHandlers(w)
  \/ \E w \in Workers : Execute_Run(w, Final)
  \/ \E w \in Workers, id \in DOMAIN pauses, extra \in OtherPauses :
       handlePausesAllNaively(w, "e2", id, extra)
  \/ \E w \in Workers, id \in DOMAIN pauses, extra \in OtherPauses :
       handleAggregatePauses(w, "e2", id, extra)
  \/ \E run \in RunIds : Cancel_Load(API, run)
  \/ Cancel_Cancel(API)
  \/ Cancel_Delete(API)
  \/ Cancel_Finish(API)
  \/ Cancel_Notify(API)

SpecCancelAPI == Init /\ [][NextCancelAPI]_vars

\* ------------------------------------ specification: pauses saved again
\* One run of f4 whose SDK sends, after the wait or the invocation, an opcode the
\* executor does not know: the call fails, the queue retries it, and the opcode
\* is handled again.  The pause's timeout job runs meanwhile.
ResaveRequests ==
  [fn : {"f4"}, events : {<<"e1">>}, idem : {""}, orig : {FALSE},
   batch : {""}, prevent : {FALSE}, pausedAt : {-1}]

ResaveResponses ==
  PauseResponses \cup
  { Response("", FALSE, <<Op("WaitForEvent", "w"), Op("Unknown", "")>>, ""),
    Response("", FALSE, <<Op("InvokeFunction", "i"), Op("Unknown", "")>>, "") }

ResaveHandlers(w) ==
  \/ Execute_Load(w)
  \/ Execute_Start(w)
  \/ Execute_Return(w)
  \/ HandleResponse_Save(w)
  \/ HandleResponse_Finish(w)
  \/ HandleResponse_Completed(w)
  \/ HandleGeneratorResponse_Load(w)
  \/ HandleGeneratorResponse_Update(w)
  \/ HandleGenerator_Skip(w)
  \/ handleGeneratorWaitForEvent_SavePause(w)
  \/ handleGeneratorWaitForEvent_Enqueue(w)
  \/ handleGeneratorInvokeFunction_SavePause(w)
  \/ handleGeneratorInvokeFunction_Enqueue(w)
  \/ handleGeneratorInvokeFunction_Send(w)
  \/ PauseTimeout(w)
  \/ Resume_Lease(w)
  \/ Resume_Consume(w)
  \/ Resume_Enqueue(w)

NextResave ==
  \/ \E req \in ResaveRequests : Schedule_New(API, req)
  \/ Schedule_SavePause(API)
  \/ Schedule_Enqueue(API)
  \/ \E w \in Workers : ResaveHandlers(w)
  \/ \E w \in Workers, r \in ResaveResponses : Execute_Run(w, r)

SpecResave == Init /\ [][NextResave]_vars

\* --------------------------------------------- specification: failed steps
\* One run of f5, started by e1: its step succeeds, fails or is retried, while
\* the API may cancel the run.
StepRequests ==
  [fn : {"f5"}, events : {<<"e1">>}, idem : {""}, orig : {FALSE},
   batch : {""}, prevent : {FALSE}, pausedAt : {-1}]

StepResponses == {Final} \cup SDKErrors(SourceEdge, <<>>)

StepHandlers(w) ==
  \/ Execute_Load(w)
  \/ Execute_Start(w)
  \/ Execute_Return(w)
  \/ HandleResponse_Failed(w)
  \/ HandleResponse_FailedFinish(w)
  \/ HandleResponse_Save(w)
  \/ HandleResponse_Finish(w)
  \/ HandleResponse_Completed(w)
  \/ HandleGeneratorResponse_Load(w)
  \/ HandleGeneratorResponse_Update(w)
  \/ handleGeneratorStep_Save(w)
  \/ handleGeneratorStep_Enqueue(w)
  \/ handleStepError(w)
  \/ handleStepError_Save(w)
  \/ handleStepError_Enqueue(w)

NextStep ==
  \/ \E req \in StepRequests : nextRun = 0 /\ Schedule_New(API, req)
  \/ Schedule_SavePause(API)
  \/ Schedule_Enqueue(API)
  \/ \E w \in Workers : StepHandlers(w)
  \/ \E w \in Workers, r \in StepResponses : Execute_Run(w, r)
  \/ \E run \in RunIds : Cancel_Load(API, run)
  \/ Cancel_Cancel(API)
  \/ Cancel_Delete(API)
  \/ Cancel_Finish(API)
  \/ Cancel_Notify(API)

SpecStep == Init /\ [][NextStep]_vars

\* ------------------------------------------- specification: resumed steps
\* The run of f4 whose waiting step may be executed again, with the events
\* that resume its pauses: a pause can be consumed, saved again by the retried
\* step and resumed a second time.
ResumeResponses ==
  { Final,
    Response("", FALSE, <<Op("WaitForEvent", "w")>>, ""),
    Response("", FALSE, <<Op("WaitForEvent", "w"), Op("Unknown", "")>>, "") }

ResumeHandlers(w) ==
  \/ Execute_Load(w)
  \/ Execute_Start(w)
  \/ Execute_Return(w)
  \/ HandleResponse_Save(w)
  \/ HandleResponse_Finish(w)
  \/ HandleResponse_Completed(w)
  \/ HandleGeneratorResponse_Load(w)
  \/ HandleGeneratorResponse_Update(w)
  \/ HandleGenerator_Skip(w)
  \/ handleGeneratorWaitForEvent_SavePause(w)
  \/ handleGeneratorWaitForEvent_Enqueue(w)
  \/ PauseTimeout(w)
  \/ Resume_Lease(w)
  \/ Resume_Consume(w)
  \/ Resume_Enqueue(w)

NextResume ==
  \/ \E req \in ResaveRequests : Schedule_New(API, req)
  \/ Schedule_SavePause(API)
  \/ Schedule_Enqueue(API)
  \/ \E w \in Workers : ResumeHandlers(w)
  \/ \E w \in Workers, r \in ResumeResponses : Execute_Run(w, r)
  \/ \E w \in Workers, id \in DOMAIN pauses : handlePausesAllNaively(w, "e2", id, 0)

SpecResume == Init /\ [][NextResume]_vars

\* ------------------------------------- specification: cancellation triggers
\* Runs of f1 and f6, for one event or for a batch, scheduled while the clock
\* runs.
TriggerRequests ==
  [fn : {"f1", "f6"}, events : {<<"e1">>}, idem : {""}, orig : {FALSE},
   batch : {""}, prevent : {FALSE}, pausedAt : {-1}]
    \cup
  [fn : {"f6"}, events : {<<"e1", "e2">>}, idem : {"f6-b1"}, orig : {FALSE},
   batch : {"b1"}, prevent : {FALSE}, pausedAt : {-1}]

NextTriggers ==
  \/ \E w \in Workers, req \in TriggerRequests : Schedule_New(w, req)
  \/ \E w \in Workers : Schedule_SavePause(w)
  \/ \E w \in Workers : Schedule_Enqueue(w)
  \/ Tick

SpecTriggers == Init /\ [][NextTriggers]_vars


\* ------------------------------------------------------ specification: batches
\* Two events are appended to the batch of f2; the batch is scheduled when it is
\* full and when its timeout execution runs.
NextBatch ==
  \/ \E w \in Workers, e \in BatchSources : AppendAndScheduleBatch(w, e)
  \/ \E w \in Workers : AppendAndScheduleBatch_New(w)
  \/ \E w \in Workers : BatchTimeoutJob(w)
  \/ \E w \in Workers : RetrieveAndScheduleBatch(w)
  \/ \E w \in Workers : RetrieveAndScheduleBatch_Schedule(w)
  \/ \E w \in Workers : Schedule_SavePause(w)
  \/ \E w \in Workers : Schedule_Enqueue(w)
  \/ Tick

SpecBatch == Init /\ [][NextBatch]_vars

\* ------------------------------------------ specification: invocations
\* One run of f7, started by e1, invokes a function and waits a tick for it.
\* The invoked function's finish event e3 exists once the invocation has been
\* published; it reaches HandleInvokeFinish and, as every event, HandlePauses,
\* while the pause's timeout job and the clock run.
InvokeRequests ==
  [fn : {"f7"}, events : {<<"e1">>}, idem : {""}, orig : {FALSE},
   batch : {""}, prevent : {FALSE}, pausedAt : {-1}]

InvokeResponses == {Final, Response("", FALSE, <<Op("InvokeFunction", "i")>>, "")}

Invoked == \E n \in emitted : n.name = "inngest/function.invoked"

InvokeHandlers(w) ==
  \/ Execute_Load(w)
  \/ Execute_Start(w)
  \/ Execute_Return(w)
  \/ HandleResponse_Save(w)
  \/ HandleResponse_Finish(w)
  \/ HandleResponse_Completed(w)
  \/ HandleGeneratorResponse_Load(w)
  \/ HandleGeneratorResponse_Update(w)
  \/ handleGeneratorInvokeFunction_SavePause(w)
  \/ handleGeneratorInvokeFunction_Enqueue(w)
  \/ handleGeneratorInvokeFunction_Send(w)
  \/ PauseTimeout(w)
  \/ Resume_Lease(w)
  \/ Resume_Consume(w)
  \/ Resume_Enqueue(w)

NextInvoke ==
  \/ \E req \in InvokeRequests : nextRun = 0 /\ Schedule_New(API, req)
  \/ Schedule_SavePause(API)
  \/ Schedule_Enqueue(API)
  \/ \E w \in Workers : InvokeHandlers(w)
  \/ \E w \in Workers, r \in InvokeResponses : Execute_Run(w, r)
  \/ \E w \in Workers : Invoked /\ HandleInvokeFinish(w, "e3")
  \/ \E w \in Workers, id \in DOMAIN pauses : Invoked /\ handlePausesAllNaively(w, "e3", id, 0)
  \/ Tick

SpecInvoke == Init /\ [][NextInvoke]_vars

\* The same with an event stream that may refuse the invocation event.
NextFailingInvoke ==
  \/ NextInvoke
  \/ \E w \in Workers : handleGeneratorInvokeFunction_SendFails(w)

SpecFailingInvoke == Init /\ [][NextFailingInvoke]_vars

\* ------------------------------------- specification: duplicate deliveries
\* One run of f5 whose step succeeds; the queue may deliver an item a second
\* time while its first execution is under way.
DuplicateResponses == {Final, Response("", FALSE, <<Op("Step", "s")>>, "")}

DuplicateHandlers(w) ==
  \/ Execute_Load(w)
  \/ Execute_Start(w)
  \/ Execute_Return(w)
  \/ HandleResponse_Save(w)
  \/ HandleResponse_Finish(w)
  \/ HandleResponse_Completed(w)
  \/ HandleGeneratorResponse_Load(w)
  \/ HandleGeneratorResponse_Update(w)
  \/ handleGeneratorStep_Save(w)
  \/ handleGeneratorStep_Enqueue(w)
  \/ Redeliver(w)

NextDuplicate ==
  \/ \E req \in StepRequests : nextRun = 0 /\ Schedule_New(API, req)
  \/ Schedule_SavePause(API)
  \/ Schedule_Enqueue(API)
  \/ \E w \in Workers : DuplicateHandlers(w)
  \/ \E w \in Workers, r \in DuplicateResponses : Execute_Run(w, r)

SpecDuplicate == Init /\ [][NextDuplicate]_vars

\* ----------------------------------------- specification: missing drivers
\* Runs of f1, whose step has a driver, and of f8, whose step has none.
DriverRequests ==
  [fn : {"f1", "f8"}, events : {<<"e1">>}, idem : {""}, orig : {FALSE},
   batch : {""}, prevent : {FALSE}, pausedAt : {-1}]

DriverHandlers(w) ==
  \/ Execute_Load(w)
  \/ Execute_Start(w)
  \/ Execute_Return(w)
  \/ HandleResponse_Save(w)
  \/ HandleResponse_Finish(w)
  \/ HandleResponse_Completed(w)

NextDriver ==
  \/ \E req \in DriverRequests : Schedule_New(API, req)
  \/ Schedule_SavePause(API)
  \/ Schedule_Enqueue(API)
  \/ \E w \in Workers : DriverHandlers(w)
  \/ \E w \in Workers : Execute_Run(w, Final)

SpecDriver == Init /\ [][NextDriver]_vars

\* ------------------------------------------- specification: waits retried
\* Runs of f4 that wait for an event, with a queue that may refuse the timeout
\* job of the pause: the call fails and the queue retries the item.
WaitRequests ==
  [fn : {"f4"}, events : {<<"e1">>, <<"e2">>}, idem : {""}, orig : {FALSE},
   batch : {""}, prevent : {FALSE}, pausedAt : {-1}]

WaitResponses == {Final, Response("", FALSE, <<Op("WaitForEvent", "w")>>, "")}

WaitHandlers(w) ==
  \/ Execute_Load(w)
  \/ Execute_Start(w)
  \/ Execute_Return(w)
  \/ HandleResponse_Save(w)
  \/ HandleResponse_Finish(w)
  \/ HandleResponse_Completed(w)
  \/ HandleGeneratorResponse_Load(w)
  \/ HandleGeneratorResponse_Update(w)
  \/ handleGeneratorWaitForEvent_SavePause(w)
  \/ handleGeneratorWaitForEvent_Enqueue(w)
  \/ handleGeneratorWaitForEvent_EnqueueFails(w)
  \/ PauseTimeout(w)
  \/ Resume_Lease(w)
  \/ Resume_Consume(w)
  \/ Resume_Enqueue(w)

NextWait ==
  \/ \E req \in WaitRequests : Schedule_New(API, req)
  \/ Schedule_SavePause(API)
  \/ Schedule_Enqueue(API)
  \/ \E w \in Workers : WaitHandlers(w)
  \/ \E w \in Workers, r \in WaitResponses : Execute_Run(w, r)

SpecWait == Init /\ [][NextWait]_vars

\* ------------------------------- specification: expressions not compiling
\* Runs of f9, whose wait has an expression that does not compile, with the
\* Cancel API called meanwhile.
CompileRequests ==
  [fn : {"f9"}, events : {<<"e1">>, <<"e2">>}, idem : {""}, orig : {FALSE},
   batch : {""}, prevent : {FALSE}, pausedAt : {-1}]

CompileHandlers(w) ==
  \/ Execute_Load(w)
  \/ Execute_Start(w)
  \/ Execute_Return(w)
  \/ HandleResponse_Save(w)
  \/ HandleResponse_Finish(w)
  \/ HandleResponse_Completed(w)
  \/ HandleGeneratorResponse_Load(w)
  \/ HandleGeneratorResponse_Update(w)
  \/ handleGeneratorWaitForEvent_SavePause(w)
  \/ HandleResponse_CompileError(w)
  \/ HandleResponse_CompileFailed(w)
  \/ HandleResponse_CompileFinish(w)

NextCompile ==
  \/ \E req \in CompileRequests : Schedule_New(API, req)
  \/ Schedule_SavePause(API)
  \/ Schedule_Enqueue(API)
  \/ \E w \in Workers : CompileHandlers(w)
  \/ \E w \in Workers, r \in SDKCompiles(SourceEdge, <<>>) : Execute_Run(w, r)
  \/ \E run \in RunIds : delivered.cancel = 0 /\ Cancel_Load(API, run)
  \/ Cancel_Cancel(API)
  \/ Cancel_Delete(API)
  \/ Cancel_Finish(API)
  \/ Cancel_Notify(API)

SpecCompile == Init /\ [][NextCompile]_vars

\* --------------------------------------- specification: request versions
\* Runs of f10: the first response sets the run's request version, a later
\* response with two opcodes declares another.
VersionRequests ==
  [fn : {"f10"}, events : {<<"e1">>, <<"e2">>}, idem : {""}, orig : {FALSE},
   batch : {""}, prevent : {FALSE}, pausedAt : {-1}]

VersionResponses ==
  SDKVersions(SourceEdge, <<>>) \cup SDKVersions(SourceEdge, [x \in {"a"} |-> ""])

VersionHandlers(w) ==
  \/ Execute_Load(w)
  \/ Execute_Start(w)
  \/ Execute_Return(w)
  \/ HandleResponse_Save(w)
  \/ HandleResponse_Finish(w)
  \/ HandleResponse_Completed(w)
  \/ HandleGeneratorResponse_Load(w)
  \/ HandleGeneratorResponse_Update(w)
  \/ handleGeneratorStep_Save(w)
  \/ handleGeneratorStep_Enqueue(w)
  \/ handleGeneratorStepPlanned(w)

NextVersion ==
  \/ \E req \in VersionRequests : Schedule_New(API, req)
  \/ Schedule_SavePause(API)
  \/ Schedule_Enqueue(API)
  \/ \E w \in Workers : VersionHandlers(w)
  \/ \E w \in Workers, r \in VersionResponses : Execute_Run(w, r)

SpecVersion == Init /\ [][NextVersion]_vars

\* ------------------------------------------- specification: the fan-out
\* One HandlePauses call, for an event with as many pauses waiting as the
\* naive strategy takes at most, or with more than the semaphore's cap.
FanOuts == {2, PauseThreshold, PauseHandleConcurrency + 1}

NextFanOut ==
  \/ \E n \in FanOuts : hist = {} /\ HandlePauses_FanOut(1, n)
  \/ FanOut_Go(1)
  \/ FanOut_Skip(1)
  \/ FanOut_WithGroupID(1)
  \/ \E own \in BOOLEAN : FanOut_Call(1, own)
  \/ FanOut_Wait(1)

SpecFanOut == Init /\ [][NextFanOut]_vars

\* ------------------------------------- specification: runs of finish events
\* Runs of f9, when it returns at once, and of f5, when it fails, triggered by
\* a "go" event, by a function.finished event (e3) and by a function.failed
\* event (e5), end as completed, failed or cancelled.
FinishRequests ==
  {req \in [fn : {"f5", "f9"}, events : {<<"e1">>, <<"e3">>, <<"e5">>}, idem : {""},
            orig : {FALSE}, batch : {""}, prevent : {FALSE}, pausedAt : {-1}] :
     req.fn = "f9" <=> req.events[1] = "e3"}

FinishResponses == {Final, Response("boom", TRUE, <<Op("Step", "s")>>, "")}

FinishHandlers(w) ==
  \/ Execute_Load(w)
  \/ Execute_Start(w)
  \/ Execute_Return(w)
  \/ HandleResponse_Failed(w)
  \/ HandleResponse_FailedFinish(w)
  \/ HandleResponse_Save(w)
  \/ HandleResponse_Finish(w)
  \/ HandleResponse_Completed(w)

NextFinish ==
  \/ \E req \in FinishRequests : Schedule_New(API, req)
  \/ Schedule_SavePause(API)
  \/ Schedule_Enqueue(API)
  \/ \E w \in Workers : FinishHandlers(w)
  \/ \E w \in Workers, r \in FinishResponses : Execute_Run(w, r)
  \/ \E run \in RunIds : delivered.cancel = 0 /\ Cancel_Load(API, run)
  \/ Cancel_Cancel(API)
  \/ Cancel_Delete(API)
  \/ Cancel_Finish(API)
  \/ Cancel_Notify(API)

SpecFinish == Init /\ [][NextFinish]_vars

\* ------------------------------------------ specification: Schedule fails
\* Schedule calls for f6, whose cancellations are saved, and for f11, whose
\* second cancellation has a timeout that does not parse, with a queue that may
\* refuse the start item.
FailingRequests ==
  [fn : {"f6", "f11"}, events : {<<"e1">>, <<"e2">>}, idem : {""}, orig : {FALSE},
   batch : {""}, prevent : {FALSE}, pausedAt : {-1}]

NextFailing ==
  \/ \E w \in Workers, req \in FailingRequests : Schedule_New(w, req)
  \/ \E w \in Workers : Schedule_SavePause(w)
  \/ \E w \in Workers : Schedule_Enqueue(w)
  \/ \E w \in Workers : Schedule_EnqueueFails(w)
  \/ Tick

SpecFailing == Init /\ [][NextFailing]_vars

\* --------------------------------------- specification: Resume's failures
\* One run of f4 waits as step "w"; its pause is resumed by the event e2 and by
\* its timeout job, with a state store that may fail the lease and a queue that
\* may refuse the continuation edge.
FailingResumeHandlers(w) ==
  \/ Execute_Load(w)
  \/ Execute_Start(w)
  \/ Execute_Return(w)
  \/ HandleResponse_Save(w)
  \/ HandleResponse_Finish(w)
  \/ HandleResponse_Completed(w)
  \/ HandleGeneratorResponse_Load(w)
  \/ HandleGeneratorResponse_Update(w)
  \/ handleGeneratorWaitForEvent_SavePause(w)
  \/ handleGeneratorWaitForEvent_Enqueue(w)
  \/ PauseTimeout(w)
  \/ Resume_Lease(w)
  \/ Resume_Consume(w)
  \/ Resume_Enqueue(w)

ResumeProgress ==
  \/ \E req \in ResaveRequests : Schedule_New(API, req)
  \/ Schedule_SavePause(API)
  \/ Schedule_Enqueue(API)
  \/ \E w \in Workers : FailingResumeHandlers(w)
  \/ \E w \in Workers, r \in WaitResponses : Execute_Run(w, r)
  \/ \E w \in Workers, id \in DOMAIN pauses : handlePausesAllNaively(w, "e2", id, 0)

NextFailingResume ==
  \/ ResumeProgress
  \/ \E w \in Workers : Resume_LeaseFails(w)
  \/ \E w \in Workers : Resume_EnqueueFails(w)

\* The workers keep taking the steps that are enabled; the failures are the
\* collaborators' to choose.
SpecFailingResume ==
  Init /\ [][NextFailingResume]_vars /\ WF_vars(ResumeProgress)

\* ------------------------------------- specification: a step's follow-up
\* One run, of f2 with its planned steps "a" and "b" or of f5 with its step
\* "s", and a queue that may refuse the follow-up edge of a step once.
FailingStepRequests ==
  [fn : {"f2", "f5"}, events : {<<"e1">>}, idem : {""}, orig : {FALSE},
   batch : {""}, prevent : {FALSE}, pausedAt : {-1}]

FailingStepResponses ==
  DriverResponses \cup {Response("", FALSE, <<Op("Step", "s")>>, "")}

StepProgress ==
  \/ \E req \in FailingStepRequests : nextRun = 0 /\ Schedule_New(API, req)
  \/ Schedule_SavePause(API)
  \/ Schedule_Enqueue(API)
  \/ \E w \in Workers : Handlers(w)
  \/ \E w \in Workers, r \in FailingStepResponses : Execute_Run(w, r)

NextFailingStep ==
  \/ StepProgress
  \/ \E w \in Workers : handleGeneratorStep_EnqueueFails(w)

\* The workers keep taking the steps that are enabled.
SpecFailingStep ==
  Init /\ [][NextFailingStep]_vars /\ WF_vars(StepProgress)

\* ------------------------------------------------------------------ claims
ExecuteCalls == {w \in Threads : loc[w].op = "Execute"}
Terminal == {"completed", "failed", "cancelled"}

C7_TerminalSticky ==
  [][\A r \in DOMAIN runs :
       runs[r].status \in Terminal => runs'[r].status = runs[r].status]_vars

\* C8: a started_at or span_id once written keeps its value through every later
\* metadata update, and only the first attempt (attempt 0) of the trigger edge
\* issues the update that records the start.
C8_StartWrittenOnce ==
  [][/\ \A r \in DOMAIN runs :
          /\ runs[r].startedAt # 0 => runs'[r].startedAt = runs[r].startedAt
          /\ runs[r].spanID # "" => runs'[r].spanID = runs[r].spanID
     /\ \A w \in Threads :
          pc'[w] = "Execute_Start" =>
            loc'[w].item.edge.incoming = TriggerName /\ loc'[w].item.attempt = 0]_vars

C8_Witness ==
  \E w \in ExecuteCalls :
    /\ pc[w] = "handleGeneratorStepPlanned"
    /\ loc[w].item.edge.incoming = TriggerName
    /\ loc[w].item.attempt = 1
    /\ runs[loc[w].item.id.run].die
    /\ runs[loc[w].item.id.run].startedAt = 1
    /\ runs[loc[w].item.id.run].spanID = "span"

FinalSavers(r) ==
  {w \in ExecuteCalls : /\ pc[w] \in {"HandleResponse_Finish", "HandleResponse_Completed"}
                        /\ loc[w].item.id.run = r}
FinalsOf(r, res) == {h \in hist : h.op = "HandleResponse" /\ h.run = r /\ h.res = res}
Completers(r) == Cardinality(FinalsOf(r, "completed")) + Cardinality(FinalSavers(r))

C10_DuplicateReturnsNil ==
  \A w \in ExecuteCalls :
    pc[w] = "Execute_Return" /\ loc[w].path = "duplicate" =>
      loc[w].ret = "nil" /\ ~loc[w].retry

\* Schedule calls that got past the debounce and paused checks, returned or not,
\* with the key each resolved to.
ScheduleReturned ==
  {h \in hist : h.op = "Schedule" /\ h.res \in {"nil", "ErrIdentifierExists"}}
ScheduleInFlight ==
  {w \in Threads : pc[w] \in {"Schedule_SavePause", "Schedule_Enqueue"}}
ScheduleCalls ==
  {[fn |-> h.fn, key |-> h.key, run |-> h.run] : h \in ScheduleReturned}
    \cup {[fn |-> loc[w].req.fn, key |-> loc[w].key, run |-> loc[w].id.run] :
            w \in ScheduleInFlight}
RunsOfKey(fn, key) ==
  {c.run : c \in {d \in ScheduleCalls : d.fn = fn /\ d.key = key}}

\* C1: two Schedule calls for one function that resolve to the same idempotency
\* key create at most one run state and one start item; once no such call is in
\* flight exactly one of them has returned nil, every other has returned
\* ErrIdentifierExists, and there is exactly one run state and one start item.
C1_ScheduleOnce ==
  \A c \in ScheduleCalls :
    LET rs == RunsOfKey(c.fn, c.key) \cap DOMAIN runs
        its == {i \in queue : i.kind = "start" /\ i.id.run \in RunsOfKey(c.fn, c.key)}
        oks == {h \in ScheduleReturned : h.fn = c.fn /\ h.key = c.key /\ h.res = "nil"}
        busy == {w \in ScheduleInFlight : loc[w].req.fn = c.fn /\ loc[w].key = c.key}
    IN  /\ Cardinality(rs) <= 1
        /\ Cardinality(its) <= 1
        /\ Cardinality(oks) <= 1
        /\ busy = {} => Cardinality(rs) = 1 /\ Cardinality(its) = 1 /\ Cardinality(oks) = 1

\* Two calls for f1 resolved to one key by different routes (the event id, an
\* explicit key): the first scheduled the run, the second was refused.
C1_Witness ==
  \E h1, h2 \in ScheduleReturned :
    /\ h1.fn = h2.fn /\ h1.key = h2.key /\ h1.run < h2.run
    /\ h1.res = "nil" /\ h2.res = "ErrIdentifierExists"
    /\ ScheduleInFlight = {}

\* ------------------------------------------------------ claims on pauses
PauseCallers ==
  {"handlePausesAllNaively", "handleAggregatePauses", "HandleInvokeFinish", "PauseTimeout"}
ResumeSteps == {"Resume_Lease", "Resume_Consume", "Resume_Enqueue"}
ResumeResults == {"resumed", "consumed", "error", "ErrPauseLeased", "ErrPauseNotFound"}

\* The Resume calls on a pause: those under way and those that have returned.
Resuming(id) == {w \in Workers : pc[w] \in ResumeSteps /\ loc[w].pause.id = id}
ResumeReturns(id) ==
  {h \in hist : h.op \in PauseCallers /\ h.pause = id /\ h.res \in ResumeResults}
ResumedPauses == {h.pause : h \in {x \in hist : x.op \in PauseCallers /\ x.res \in ResumeResults}}

\* C3, as stated: once the Resume calls made on a pause have all returned,
\* exactly one of them has consumed the pause and enqueued the continuation
\* edge, and each of the others saw pause-leased or pause-not-found.
C3_AsStated ==
  \A id \in ResumedPauses :
    Resuming(id) = {} =>
      /\ Cardinality({h \in ResumeReturns(id) : h.res = "resumed"}) = 1
      /\ \A h \in ResumeReturns(id) :
           h.res \in {"resumed", "ErrPauseLeased", "ErrPauseNotFound"}

\* What does hold of concurrent Resume calls: at most one of them gets past the
\* lease, so at most one consumes the pause and enqueues the edge.
C3_AtMostOne ==
  \A id \in ResumedPauses \cup {loc[w].pause.id : w \in {v \in Workers : pc[v] \in ResumeSteps}} :
    Cardinality({w \in Resuming(id) : pc[w] # "Resume_Lease"})
      + Cardinality({h \in ResumeReturns(id) : h.res \in {"resumed", "error"}}) <= 1

\* The pauses an event reaches in a step: <<event, pause id>> pairs.
Reached ==
  UNION {IF d[2] = <<"finish">>
         THEN {<<d[1], id>> : id \in PauseByInvokeCorrelationID(CorrelationID(d[1]))}
         ELSE {d}
         : d \in delivered'.seen \ delivered.seen}

\* The handler of the event goes no further than its look at the pause.
Skipped ==
  /\ runs' = runs
  /\ qvars' = qvars
  /\ \A w \in Workers : pc[w] = "idle" => pc'[w] = "idle"

\* C4, as stated: the event that triggered a pause's run never resumes the
\* pause, never cancels the run, and neither consumes nor deletes the pause,
\* in the naive and in the aggregate strategy.
C4_AsStated ==
  [][\A d \in Reached :
       pauses[d[2]].trigger = d[1] => Skipped /\ pauses' = pauses]_vars

\* C4: the event that triggered a pause's run never resumes the pause and never
\* cancels the run; it leaves the pause in the store unless the pause has
\* expired, and then it deletes it.
C4_SelfTriggerGuard ==
  [][\A d \in Reached :
       pauses[d[2]].trigger = d[1] =>
         /\ Skipped
         /\ pauses' = IF pauses[d[2]].expires < now THEN Drop(pauses, d[2]) ELSE pauses]_vars

C4_Witness ==
  \E h \in hist :
    /\ h.op \in {"handlePausesAllNaively", "handleAggregatePauses"}
    /\ h.res = "self"
    /\ h.pause \in DOMAIN pauses
    /\ pauses[h.pause].trigger = h.evt
    /\ runs[pauses[h.pause].run.run].status # "cancelled"

\* C5: an event that reaches a pause whose expiry is in the past deletes the
\* pause and does nothing else: no Resume, no Cancel, no edge enqueued, the
\* run's status as it was; and so in HandleInvokeFinish.
C5_ExpiredDeleted ==
  [][\A d \in Reached :
       pauses[d[2]].expires < now => Skipped /\ d[2] \notin DOMAIN pauses']_vars

C5_Witness ==
  \E h \in hist :
    /\ h.op \in PauseCallers
    /\ h.res = "expired"
    /\ h.pause \notin DOMAIN pauses
    /\ \A r \in DOMAIN runs : runs[r].status = "running"
    /\ \A item \in queue : item.kind # "edge"
\* The pauses the store holds for a step of a run.
PausesOf(run, step) ==
  {id \in DOMAIN pauses : pauses[id].run.run = run /\ pauses[id].outgoing = step}

\* The Execute calls whose WaitForEvent or InvokeFunction opcode found its
\* pause in the store.
Resaved == {w \in Workers : loc[w].op = "Execute" /\ loc[w].resaved}

\* C6: a WaitForEvent or InvokeFunction opcode handled again for the same run
\* and step derives the pause id it derived the first time: the store never
\* holds two pauses for the step, and the handling that finds the pause there
\* returns success and saves and enqueues nothing.
C6_SamePauseID ==
  /\ [](\A id \in DOMAIN pauses :
          PausesOf(pauses[id].run.run, pauses[id].outgoing) = {id})
  /\ [][\A w \in Workers :
          (w \in Resaved' /\ w \notin Resaved) =>
            /\ loc'[w].pause.id = PauseID(loc[w].item.id, loc[w].ops[1].id)
            /\ loc'[w].pause.id \in DOMAIN pauses
            /\ loc'[w].err = ""
            /\ pauses' = pauses
            /\ qvars' = qvars]_vars

C6_Witness ==
  \E w \in Resaved :
    /\ pc[w] = "Execute_Return"
    /\ loc[w].item.attempt > 0
    /\ loc[w].ret = "nil"
    /\ PausesOf(loc[w].item.id.run, loc[w].pause.outgoing) = {loc[w].pause.id}
\* The error that the Cancel called for a pause is about to answer with, "nil"
\* for none: Load's at executor.go:1559, the state store's at executor.go:1572.
Cancelling == {w \in Workers : \/ pc[w] = "HandlePauses_Cancel"
                               \/ pc[w] = "Cancel_Cancel" /\ loc[w].parent # Idle}
CancelAnswer(w) ==
  IF pc[w] = "HandlePauses_Cancel"
  THEN (IF smLoadErr(loc[w].pause.run.run) # "nil" THEN smLoadErr(loc[w].pause.run.run)
        ELSE IF runs[loc[w].pause.run.run].status \in {"failed", "completed", "overflowed"}
        THEN "ErrFunctionEnded" ELSE "nil")
  ELSE smCancelErr(loc[w].id.run)

\* C11: for the same event and the same stored pauses the aggregate strategy
\* consumes the pauses the naive strategy consumes: whatever Cancel answers for
\* a cancellation pause, both strategies do the same with the pause (consume
\* and count it, leave it, or report an error).
C11_SameConsumed ==
  \A w \in Cancelling :
    AfterCancel("handlePausesAllNaively", CancelAnswer(w))
      = AfterCancel("handleAggregatePauses", CancelAnswer(w))
\* C12, as stated: the expression of a cancellation pause is the trigger's
\* condition ANDed with (async.ts == null || async.ts > T), T the time in the
\* run's id: no event whose ts is set and is not after T meets it.
C12_AsStated ==
  \A id \in DOMAIN pauses :
    pauses[id].cancel =>
      \A e \in CancelEvents :
        Evaluate(pauses[id].expr, e) =>
          EventTs(e) = 0 \/ EventTs(e) > pauses[id].run.time

\* C12 with T read as the time in the triggering event's id, as
\* generateCancelExpression is called: an event whose ts is set and is not
\* after T still meets the expression.
C12_AfterTriggerEvent ==
  \A id \in DOMAIN pauses :
    pauses[id].cancel =>
      \A e \in CancelEvents :
        Evaluate(pauses[id].expr, e) =>
          EventTs(e) = 0 \/ EventTs(e) > EventIDTime(pauses[id].trigger)

\* ------------------------------------------------ claims on the schedule key
\* The key of the claimed precedence: the explicit key, else the new run id of
\* a rerun, else the single event's internal id, else the batch id.
KeyAsStated(req, runID) ==
  IF req.idem # "" THEN req.idem
  ELSE IF req.orig THEN RunIDString(runID)
  ELSE IF Len(req.events) = 1 THEN req.events[1]
  ELSE req.batch

\* C13, as stated: Schedule picks the idempotency key by the precedence
\* explicit key, new run id of a rerun, single event's id, batch id; a request
\* with an explicit key and an original run id uses the explicit key.
C13_AsStated ==
  \A w \in ScheduleInFlight : loc[w].key = KeyAsStated(loc[w].req, loc[w].id.run)

\* C13 as executor.go:294-312 has it: a rerun's key is the new run id whether
\* or not an explicit key was given; the explicit key counts for other requests.
C13_RerunFirst ==
  \A w \in ScheduleInFlight :
    LET req == loc[w].req
    IN  loc[w].key = IF req.orig THEN RunIDString(loc[w].id.run)
                     ELSE IF req.idem # "" THEN req.idem
                     ELSE IF Len(req.events) = 1 THEN req.events[1]
                     ELSE req.batch

\* ------------------------------------------------------- claims on Cancel
CancelCalls == {h \in hist : h.op = "Cancel"}

\* C14, as stated: Cancel on a failed, completed or overflowed run returns
\* ErrFunctionEnded, Cancel on a run that is already cancelled returns nil, and
\* so does every Cancel of a run that a Cancel has succeeded on before.
C14_AsStated ==
  \A h \in CancelCalls :
    /\ h.was \in {"failed", "completed", "overflowed"} => h.res = "ErrFunctionEnded"
    /\ h.was = "cancelled" => h.res = "nil"
    /\ (\E g \in CancelCalls : g.run = h.run /\ g.was = "active" /\ g.res = "nil")
         => h.res \in {"nil", "ErrFunctionEnded"}

\* C14 without the second Cancel: an ended run is refused and a cancelled run
\* whose state is still there answers nil; once the first Cancel has deleted
\* the state, Load fails and Cancel returns its error.
C14_EndedRefused ==
  \A h \in CancelCalls :
    /\ h.was \in {"failed", "completed", "overflowed"} => h.res = "ErrFunctionEnded"
    /\ h.was = "cancelled" => h.res = "nil"
    /\ h.was = "deleted" => h.res = "err" /\ ~smExists(h.run)

\* What Cancel emits for a run: the finished event with the cancelled error,
\* the failed event it must not send, the listeners' call.
FinishedCancelled(run) ==
  [name |-> FnFinishedName, run |-> run, err |-> "function cancelled", by |-> CancelBy]
FailedCancelled(run) ==
  [name |-> FnFailedName, run |-> run, err |-> "function cancelled", by |-> CancelBy]
NotifiedCancelled(run) == Notify("OnFunctionCancelled", run, CancelBy)

\* C15, as stated: a Cancel that gets to cancel the run marks it cancelled,
\* then deletes its state, then emits inngest/function.finished with the
\* cancelled error and no inngest/function.failed, then calls OnFunctionCancelled.
C15_AsStated ==
  [][\A w \in Threads :
       /\ pc[w] = "Cancel_Cancel" /\ pc'[w] = "Cancel_Delete"
            => runs'[loc[w].id.run].status = "cancelled"
       /\ pc[w] = "Cancel_Delete" /\ pc'[w] = "Cancel_Finish"
            => ~runs'[loc[w].id.run].exists
       /\ pc[w] = "Cancel_Finish" /\ pc'[w] = "Cancel_Notify"
            => /\ FinishedCancelled(loc[w].id.run) \in emitted'
               /\ FailedCancelled(loc[w].id.run) \notin emitted'
       /\ pc[w] = "Cancel_Notify" /\ pc'[w] # "Cancel_Notify"
            => /\ NotifiedCancelled(loc[w].id.run) \cap emitted = {}
               /\ NotifiedCancelled(loc[w].id.run) \subseteq emitted'
               /\ FailedCancelled(loc[w].id.run) \notin emitted']_vars

\* C15 for the runs whose finish is reported: the finish handler sends nothing
\* for a run that an inngest/function.finished or inngest/function.failed event
\* started (executor.go:1030-1033); the rest is as stated.
C15_CancelEffects ==
  [][\A w \in Threads :
       /\ pc[w] = "Cancel_Cancel" /\ pc'[w] = "Cancel_Delete"
            => runs'[loc[w].id.run].status = "cancelled"
       /\ pc[w] = "Cancel_Delete" /\ pc'[w] = "Cancel_Finish"
            => ~runs'[loc[w].id.run].exists
       /\ pc[w] = "Cancel_Finish" /\ pc'[w] = "Cancel_Notify"
            => /\ FinishedCancelled(loc[w].id.run) \in emitted'
                    <=> EventName(loc[w].id.evt) \notin {FnFinishedName, FnFailedName}
               /\ FailedCancelled(loc[w].id.run) \notin emitted'
       /\ pc[w] = "Cancel_Notify" /\ pc'[w] # "Cancel_Notify"
            => /\ NotifiedCancelled(loc[w].id.run) \cap emitted = {}
               /\ NotifiedCancelled(loc[w].id.run) \subseteq emitted'
               /\ FailedCancelled(loc[w].id.run) \notin emitted']_vars

\* A Cancel of the API went all the way: the run is cancelled, its state is
\* gone, the finished event is out and the listeners have been called.
C15_Witness ==
  \E h \in CancelCalls :
    /\ h.was = "active" /\ h.res = "nil"
    /\ runs[h.run].status = "cancelled" /\ ~runs[h.run].exists
    /\ FinishedCancelled(h.run) \in emitted
    /\ NotifiedCancelled(h.run) \subseteq emitted

\* ------------------------------------------------------- claims on Resume
\* The continuation items: the edges that leave a resumed step.
Continuations(q) == {it \in q : it.kind = "edge" /\ it.edge.outgoing # ""}

\* C16: Resume consumes the pause, which stores the resume data under the
\* pause's data key, before it enqueues the continuation edge; the edge's job
\* id is <idempotency_key>-<data_key>; the call succeeds whether the queue took
\* the item or answered that it exists; no continuation item is in the queue
\* while the data of its step is not in the run's state.
C16_DataBeforeEdge ==
  [][/\ \A w \in Threads :
          pc[w] = "Resume_Enqueue" /\ pc'[w] # "Resume_Enqueue"
            => /\ loc[w].pause.dataKey \in DOMAIN runs[loc[w].pause.run.run].actions
               /\ IdempotencyKey(loc[w].pause.run) \o <<loc[w].pause.dataKey, "">> \in jobs'
               /\ PauseResult(loc[w], "resumed") \in hist'
     /\ \A it \in Continuations(queue') :
          /\ it.edge.outgoing \in DOMAIN runs'[it.id.run].actions
          /\ it.jobID = IdempotencyKey(it.id) \o <<it.edge.outgoing, "">>]_vars

\* The pause of step "w" was resumed twice, by its timeout and by an event (the
\* retried step had saved it again): the second enqueue met the existing job
\* id, and the continuation waits with the data in the run's state.
C16_Witness ==
  /\ \E h, g \in hist : /\ h.op = "PauseTimeout" /\ g.op = "handlePausesAllNaively"
                        /\ h.res = "resumed" /\ g.res = "resumed" /\ h.pause = g.pause
  /\ \E it \in Continuations(queue) : it.edge.outgoing \in DOMAIN runs[it.id.run].actions

\* ------------------------------------------------- claims on failed steps
\* The follow-up item of a step: the edge or error edge that leaves the step
\* (an edge that plans a step keeps the outgoing step of the edge before it).
FollowUp(it) ==
  /\ it.kind \in {"edge", "edge_error"}
  /\ it.edge.gen = ""
  /\ it.edge.outgoing \notin {"", TriggerName}
FollowUps(q, run) == {it \in q : FollowUp(it) /\ it.id.run = run}
StepErrorItem(l) ==
  Item(IdempotencyKey(l.item.id) \o <<l.ops[1].id, "failure">>, "edge_error", l.item.id,
       l.maxAttempts, [outgoing |-> l.ops[1].id, incoming |-> l.edge.incoming, gen |-> ""],
       now, NoPause)

C18_SavedBeforeFollowUp ==
  [][/\ \A it \in queue' :
          FollowUp(it)
            => /\ it.edge.outgoing \in DOMAIN runs'[it.id.run].actions
               /\ runs'[it.id.run].actions[it.edge.outgoing]
                    = IF it.kind = "edge" THEN "data" ELSE "error"
     /\ \A w \in Workers :
          /\ pc[w] \in {"handleGeneratorStep_Save", "handleStepError_Save"}
          /\ pc'[w] # pc[w]
          /\ smSaveResponseErr(loc[w].item.id.run, loc[w].ops[1].id) # "nil"
          => /\ pc'[w] \notin {"handleGeneratorStep_Enqueue", "handleStepError_Enqueue"}
             /\ queue' = queue /\ jobs' = jobs /\ runs' = runs]_vars

\* A save failed (the run's state was deleted by a Cancel) and the call ended
\* with the store's error, no follow-up item in the queue.
C18_Witness ==
  \E w \in Workers :
    /\ pc[w] = "Execute_Return"
    /\ loc[w].err = "ErrRunNotFound"
    /\ loc[w].resp.gen # <<>>
    /\ FollowUps(queue, loc[w].item.id.run) = {}

\* The steps that announce a retry: HandleResponse with a retryable response
\* error, handleStepError with a retryable step error.
Retrying(w) ==
  \/ pc[w] = "Execute_Run" /\ pc'[w] = "Execute_Return" /\ loc'[w].path = "retry"
  \/ pc[w] = "handleStepError" /\ pc'[w] = "Execute_Return"

\* C19, as stated: when a step is going to be retried every listener receives
\* OnStepScheduled with the attempt of the failed item plus one.
C19_AsStated ==
  [][\A w \in Workers : Retrying(w) => RetryScheduled_Once(loc[w].item) \subseteq emitted']_vars

\* C19 per listener: the k-th listener receives the failed item's attempt plus
\* k, the loop raising the attempt before each call.
C19_AttemptPerListener ==
  [][\A w \in Workers :
       Retrying(w) =>
         \A k \in Listeners :
           Lifecycle("OnStepScheduled", k, loc[w].item.id.run,
                     [job |-> loc[w].item.jobID, attempt |-> loc[w].item.attempt + k])
             \in emitted']_vars

ScheduleAnswers(w, req, res) ==
  /\ pc'[w] = "idle"
  /\ \E h \in hist' : h.op = "Schedule" /\ h.fn = req.fn /\ h.res = res

\* Paused at or before the time of the call.
isPaused_AtOrBefore(req) == req.pausedAt # -1 /\ req.pausedAt <= now

\* C21, as stated: a Schedule call for a debounced function (prevent_debounce
\* false) returns debounced, a call for a function paused at or before now
\* returns skipped, and both leave the state store and the queue unchanged.
C21_AsStated ==
  [][\A w \in Threads, req \in ScheduleRequests :
       Schedule_New(w, req) =>
         /\ FnCfg(req.fn).debounce /\ ~req.prevent
              => ScheduleAnswers(w, req, "ErrFunctionDebounced")
                 /\ UNCHANGED <<store, qvars>>
         /\ ~(FnCfg(req.fn).debounce /\ ~req.prevent) /\ isPaused_AtOrBefore(req)
              => ScheduleAnswers(w, req, "ErrFunctionSkipped")
                 /\ UNCHANGED <<store, qvars>>]_vars

\* C21 for a function paused before now: the debounced call is handed to the
\* debouncer, the call for a function paused before now is reported to the
\* listeners as skipped, and neither touches the state store or the queue.
C21_ChecksFirst ==
  [][\A w \in Threads, req \in ScheduleRequests :
       Schedule_New(w, req) =>
         /\ FnCfg(req.fn).debounce /\ ~req.prevent
              => /\ ScheduleAnswers(w, req, "ErrFunctionDebounced")
                 /\ Debounced(req) \in emitted'
                 /\ UNCHANGED <<store, qvars>>
         /\ ~(FnCfg(req.fn).debounce /\ ~req.prevent) /\ isPaused(req)
              => /\ ScheduleAnswers(w, req, "ErrFunctionSkipped")
                 /\ \E n \in emitted' : n.name = "OnFunctionSkipped"
                 /\ UNCHANGED <<store, qvars>>]_vars

\* The cancellation pauses of a run among the pauses P.
CancelPausesOf(P, run) == {id \in DOMAIN P : P[id].run.run = run /\ P[id].cancel}

\* The start item of a run is in the queue only with the run's cancellation
\* pauses saved: one per declared trigger, for the trigger's event, carrying the
\* triggering event's id; none for a batch.
PausesBeforeStart ==
  \A it \in queue :
    it.kind = "start" =>
      LET cs == FnCfg(it.id.fn).cancel
          ps == CancelPausesOf(pauses, it.id.run)
      IN  IF it.id.batch # "" THEN ps = {}
          ELSE /\ Cardinality(ps) = Len(cs)
               /\ \A i \in DOMAIN cs :
                    \E id \in ps : /\ pauses[id].event = cs[i].event
                                   /\ pauses[id].trigger = it.id.evt

\* C22: a Schedule that enqueues the start item of a non-batch run has saved
\* before it exactly one cancellation pause per declared trigger, with the
\* triggering event's id, each expiring CancelTimeout after it was saved unless
\* the trigger gives a timeout; a batch run has no cancellation pause.
C22_CancellationPauses ==
  [][/\ PausesBeforeStart'
     /\ \A id \in DOMAIN pauses' \ DOMAIN pauses :
          LET p == pauses'[id]
          IN  /\ p.cancel /\ p.run.batch = ""
              /\ \E c \in {FnCfg(p.run.fn).cancel[i] : i \in DOMAIN FnCfg(p.run.fn).cancel} :
                   /\ c.event = p.event
                   /\ p.expires = IF c.timeout = "" THEN now + CancelTimeout
                                  ELSE now + ParseDuration(c.timeout)]_vars

\* The run of f6 for one event, scheduled after the clock ticked: its start item
\* is enqueued with the two pauses saved, the first expiring CancelTimeout later.
C22_Witness ==
  \E it \in queue :
    /\ it.kind = "start" /\ it.id.fn = "f6" /\ it.id.batch = "" /\ it.id.time > 1
    /\ Cardinality(CancelPausesOf(pauses, it.id.run)) = 2
    /\ \E id \in CancelPausesOf(pauses, it.id.run) :
         pauses[id].event = "go" /\ pauses[id].expires >= it.id.time + CancelTimeout

\* The runs created for a batch, the start items accepted for it, and the
\* answers of the Schedule calls made for it.
RunsOfBatch(b) == {r \in DOMAIN runs : runs[r].id.batch = b}
StartsOfBatch(b) == {it \in queue : it.kind = "start" /\ it.id.batch = b}
ScheduledBatch(fn, b) ==
  {h \in hist : h.op = "Schedule" /\ h.fn = fn /\ h.key = BatchKey(fn, b)}
BatchPaths(b) == {h.from : h \in {x \in hist : x.op = "RetrieveAndScheduleBatch" /\ x.batch = b}}

\* C23: however the full batch and its timeout execution race, one run at most
\* is created for the batch and one start item enqueued; every Schedule made
\* for the batch carries the key <function_id>-<batch_id>, one of them at most
\* succeeds and the others find the run existing.
C23_BatchScheduledOnce ==
  /\ Cardinality(RunsOfBatch(BatchID)) <= 1
  /\ Cardinality(StartsOfBatch(BatchID)) <= 1
  /\ \A r \in DOMAIN runs : runs[r].id.batch = BatchID /\ runs[r].id.key = BatchKey(BatchFn, BatchID)
  /\ \A h \in {x \in hist : x.op = "Schedule"} :
       /\ h.key = BatchKey(BatchFn, BatchID)
       /\ h.res \in {"nil", "ErrIdentifierExists"}
  /\ Cardinality({h \in ScheduledBatch(BatchFn, BatchID) : h.res = "nil"}) <= 1

\* Both paths have scheduled the batch: one created the run, the other was told
\* that it exists.
C23_Witness ==
  /\ BatchPaths(BatchID) = {"full", "timeout"}
  /\ \E h \in ScheduledBatch(BatchFn, BatchID) : h.res = "nil"
  /\ \E h \in ScheduledBatch(BatchFn, BatchID) : h.res = "ErrIdentifierExists"
  /\ Cardinality(RunsOfBatch(BatchID)) = 1

\* A Resume that HandleInvokeFinish called for a pause it found before the
\* pause's expiry.
InvokeFinishInTime(w) ==
  /\ loc[w].op = "HandlePauses"
  /\ loc[w].from = "HandleInvokeFinish"
  /\ loc[w].began < loc[w].pause.expires

\* The step's output in run state is the event's result.
ResumedWith(R, p, e) ==
  /\ p.dataKey \in DOMAIN R[p.run.run].actions
  /\ R[p.run.run].actions[p.dataKey] = e

\* The continuation edges of a pause's step in the queue q.
ContinuationsOf(q, p) ==
  {it \in q : it.kind = "edge" /\ it.id.run = p.run.run /\ it.edge.outgoing = p.outgoing}

\* C24, as stated: HandleInvokeFinish finds the pause by the event's
\* correlation id and, the event having arrived before the pause's expiry, the
\* calling run is resumed exactly once with the event's result: the pause is
\* consumed with it (by this call, or by the handler of the same event that
\* holds the lease), one continuation edge is enqueued and the listeners
\* receive OnInvokeFunctionResumed.
C24_AsStated ==
  [][\A w \in Workers :
       /\ pc[w] = "idle" /\ pc'[w] = "Resume_Lease" /\ loc'[w].from = "HandleInvokeFinish"
            => loc'[w].pause.corr = CorrelationID(loc'[w].evt)
       /\ pc[w] = "Resume_Lease" /\ InvokeFinishInTime(w) /\ pc'[w] # pc[w]
            => \/ pc'[w] = "Resume_Consume"
               \/ ResumedWith(runs', loc[w].pause, loc[w].evt)
               \/ \E v \in Workers \ {w} :
                    /\ pc[v] \in {"Resume_Consume", "Resume_Enqueue"}
                    /\ loc[v].pause.id = loc[w].pause.id
                    /\ loc[v].evt = loc[w].evt
       /\ pc[w] = "Resume_Consume" /\ InvokeFinishInTime(w) /\ pc'[w] # pc[w]
            => /\ pc'[w] = "Resume_Enqueue"
               /\ ResumedWith(runs', loc[w].pause, loc[w].evt)
               /\ loc[w].pause.id \notin DOMAIN pauses'
       /\ pc[w] = "Resume_Enqueue" /\ InvokeFinishInTime(w) /\ pc'[w] # pc[w]
            => /\ ResumeItem(loc[w].pause).jobID \in jobs'
               /\ Cardinality(ContinuationsOf(queue', loc[w].pause)) <= 1
               /\ Resumed(loc[w].pause) \subseteq emitted']_vars

\* C24 for the Resume that gets the lease and consumes the pause: the step's
\* output is the event's result, the pause is gone, one continuation edge at
\* most is in the queue and the listeners receive OnInvokeFunctionResumed; at
\* most one caller is past the lease of a pause.
C24_ResumeOfLeaseHolder ==
  [][\A w \in Workers :
       /\ pc[w] = "idle" /\ pc'[w] = "Resume_Lease" /\ loc'[w].from = "HandleInvokeFinish"
            => loc'[w].pause.corr = CorrelationID(loc'[w].evt)
       /\ pc[w] = "Resume_Consume" /\ pc'[w] = "Resume_Enqueue"
          /\ loc[w].from = "HandleInvokeFinish"
            => /\ ResumedWith(runs', loc[w].pause, loc[w].evt)
               /\ loc[w].pause.id \notin DOMAIN pauses'
       /\ pc[w] = "Resume_Enqueue" /\ pc'[w] # pc[w]
            => /\ ResumeItem(loc[w].pause).jobID \in jobs'
               /\ Cardinality(ContinuationsOf(queue', loc[w].pause)) <= 1
               /\ Resumed(loc[w].pause) \subseteq emitted'
       /\ \A v \in Workers \ {w} :
            pc'[w] \in {"Resume_Consume", "Resume_Enqueue"}
            /\ pc'[v] \in {"Resume_Consume", "Resume_Enqueue"}
              => loc'[v].pause.id # loc'[w].pause.id]_vars

\* The follow-up edges of a step of a run in the queue q.
FollowUpsOf(q, run, step) == {it \in FollowUps(q, run) : it.edge.outgoing = step}

\* A worker handling a Step opcode whose step has its output already.
HandlesAgain(w) ==
  /\ pc[w] = "handleGeneratorStep_Save"
  /\ pc'[w] # pc[w]
  /\ smExists(loc[w].item.id.run)
  /\ loc[w].ops[1].id \in DOMAIN runs[loc[w].item.id.run].actions

\* C25, as stated: the second handling of a Step opcode of one (run, step)
\* leaves the one stored output as it is and at most one follow-up edge in the
\* queue, and reports success, not an error.
C25_AsStated ==
  [][\A w \in Workers :
       HandlesAgain(w) =>
         /\ runs' = runs
         /\ Cardinality(FollowUpsOf(queue', loc[w].item.id.run, loc[w].ops[1].id)) <= 1
         /\ loc'[w].err = ""]_vars

\* C25 without the success: the second handling leaves the stored output and
\* the queue as they are and ends with the store's ErrDuplicateResponse, and a
\* step never has more than one follow-up edge in the queue.
C25_OneOutputOneEdge ==
  [][\A w \in Workers :
       /\ HandlesAgain(w) =>
            /\ runs' = runs /\ queue' = queue /\ jobs' = jobs
            /\ loc'[w].err = "ErrDuplicateResponse"
       /\ loc[w].op = "Execute" =>
            Cardinality(FollowUpsOf(queue', loc[w].item.id.run, "s")) <= 1]_vars

\* C26, as stated: the handling of a response with an opcode the executor does
\* not know ends without the queue running the item again.
C26_AsStated ==
  [][\A w \in Workers :
       pc[w] = "Execute_Return" /\ pc'[w] = "idle" /\ loc[w].err = "unknown opcode"
         => \A it \in queue' \ queue : it.jobID # loc[w].item.jobID]_vars

\* C26 as the code has it: the unknown opcode's error is the error of the call,
\* and the queue runs the item again while it has attempts left.
C26_UnknownOpcodeRetried ==
  [][\A w \in Workers :
       /\ pc[w] = "HandleGenerator_Skip" /\ pc'[w] = "Execute_Return"
          /\ loc[w].ops[1].op # "None"
            => loc'[w].ret = "err" /\ loc'[w].retry
       /\ pc[w] = "Execute_Return" /\ pc'[w] = "idle" /\ loc[w].err = "unknown opcode"
            => queue' = queue \cup Requeue(loc[w].item, TRUE)]_vars

\* C27, as stated: an Execute of a step without a registered driver invokes no
\* driver, writes no state and returns an error to its caller: the worker goes
\* on to hand the call's answer to the queue, it does not crash.
C27_AsStated ==
  [][\A w \in Workers :
       pc[w] = "Execute_Run" /\ pc'[w] # pc[w] /\ NoRuntimeDriver(loc[w].item.id.fn)
         => /\ ~loc'[w].driver
            /\ runs' = runs
            /\ pc'[w] = "Execute_Return" /\ loc'[w].ret = "err"]_vars

\* C27 as the code has it: no driver is invoked and no state is written, and
\* the worker panics instead of returning.
C27_NoDriverPanics ==
  [][\A w \in Workers :
       pc[w] = "Execute_Run" /\ pc'[w] # pc[w] /\ NoRuntimeDriver(loc[w].item.id.fn)
         => /\ ~loc'[w].driver
            /\ runs' = runs
            /\ pc'[w] = "panic"]_vars

\* A worker's handling of WaitForEvent for the pause p has returned success.
WaitHandled(w, p) ==
  /\ pc[w] = "Execute_Return"
  /\ loc[w].ret = "nil"
  /\ loc[w].pause = p
  /\ p.opcode = "WaitForEvent"

\* The queue has accepted a timeout job for the pause p, due at p's expiry.
TimeoutEnqueued(p) ==
  /\ JobID(p.run, p.dataKey, "wait") \in jobs
  /\ \A item \in queue :
       item.jobID = JobID(p.run, p.dataKey, "wait")
         => item.kind = "pause" /\ item.pauseID = p.id /\ item.at = p.expires

\* C28, as stated: whenever the handling of a WaitForEvent opcode has returned
\* success and the pause still exists, the queue has the pause's timeout job,
\* due at the pause's expiry; also when an earlier attempt saved the pause and
\* failed to enqueue the job.
C28_AsStated ==
  \A w \in Workers : \A id \in DOMAIN pauses :
    WaitHandled(w, pauses[id]) => TimeoutEnqueued(pauses[id])

\* C28 for the handling that saved the pause itself: the timeout job is
\* enqueued before it returns success.  A handling that finds the pause saved
\* returns success without a look at the queue.
C28_SavingAttempt ==
  /\ \A w \in Workers : \A id \in DOMAIN pauses :
       WaitHandled(w, pauses[id]) /\ ~loc[w].resaved => TimeoutEnqueued(pauses[id])
  /\ [][\A w \in Workers :
          /\ pc[w] = "handleGeneratorWaitForEvent_SavePause"
          /\ pc'[w] # pc[w]
          /\ PauseID(loc[w].item.id, loc[w].ops[1].id) \in DOMAIN pauses
          => pc'[w] = "Execute_Return" /\ loc'[w].ret = "nil" /\ queue' = queue]_vars

\* The invocation events a step publishes.
Invocations(em) == {n \in em : n.name = "inngest/function.invoked"}

CompileFails(w) ==
  /\ pc[w] = "handleGeneratorWaitForEvent_SavePause"
  /\ pc'[w] # pc[w]
  /\ Len(loc[w].ops) = 1
  /\ Compile(WaitIf(loc[w].ops[1])) = ErrCompile

\* What the function's end publishes for the call of worker w.
Finished(w) ==
  runFinishHandler(loc[w].item.id, loc[w].resp, Caller(loc[w]))
    \cup Notify("OnFunctionFinished", loc[w].item.id.run, Caller(loc[w]))

\* C30, as stated: after such a failure the error is saved as the output of
\* the step, the status becomes failed, the finish handler and
\* OnFunctionFinished run, and the call returns nil and is not retried.
C30_AsStated ==
  [][\A w \in Workers :
       /\ CompileFails(w) => pc'[w] = "HandleResponse_CompileError"
       /\ pc[w] = "HandleResponse_CompileError" /\ pc'[w] # pc[w]
            => /\ StepID \in DOMAIN runs'[loc[w].item.id.run].actions
               /\ runs'[loc[w].item.id.run].actions[StepID] = ErrCompile
               /\ pc'[w] = "HandleResponse_CompileFailed"
       /\ pc[w] = "HandleResponse_CompileFailed" /\ pc'[w] # pc[w]
            => /\ runs'[loc[w].item.id.run].status = "failed"
               /\ pc'[w] = "HandleResponse_CompileFinish"
       /\ pc[w] = "HandleResponse_CompileFinish" /\ pc'[w] # pc[w]
            => /\ Finished(w) \subseteq emitted'
               /\ pc'[w] = "Execute_Return" /\ loc'[w].ret = "nil" /\ ~loc'[w].retry
       /\ pc[w] = "Execute_Return" /\ pc'[w] # pc[w] /\ loc[w].path = "compile"
            => queue' = queue]_vars

\* C30 with the run's state looked at: while the state exists each step is as
\* stated; once Cancel has deleted it, SetStatus or Load fails and the call
\* returns that error, which the queue retries.
C30_FailedUnlessDeleted ==
  [][\A w \in Workers :
       LET run == loc[w].item.id.run
       IN  /\ CompileFails(w) => pc'[w] = "HandleResponse_CompileError"
           /\ pc[w] = "HandleResponse_CompileError" /\ pc'[w] # pc[w]
                => /\ smExists(run) => runs'[run].actions[StepID] = ErrCompile
                   /\ pc'[w] = "HandleResponse_CompileFailed"
           /\ pc[w] = "HandleResponse_CompileFailed" /\ pc'[w] # pc[w]
                => IF smExists(run)
                   THEN /\ runs'[run].status = "failed"
                        /\ pc'[w] = "HandleResponse_CompileFinish"
                   ELSE /\ pc'[w] = "Execute_Return" /\ loc'[w].ret = "err"
                        /\ runs' = runs
           /\ pc[w] = "HandleResponse_CompileFinish" /\ pc'[w] # pc[w]
                => IF smExists(run)
                   THEN /\ Finished(w) \subseteq emitted'
                        /\ \E n \in Finished(w) : n.name = FnFinishedName /\ n.err = ErrCompile
                        /\ pc'[w] = "Execute_Return"
                        /\ loc'[w].ret = "nil" /\ ~loc'[w].retry
                   ELSE /\ pc'[w] = "Execute_Return" /\ loc'[w].ret = "err"
                        /\ emitted' = emitted
           /\ pc[w] = "Execute_Return" /\ pc'[w] # pc[w] /\ loc[w].path = "compile"
              /\ loc[w].ret = "nil"
                => queue' = queue]_vars

\* A call that ended with the compile error has returned nil; its run is failed
\* with the error as output and its finish event is out.
C30_Witness ==
  \E w \in Workers :
    /\ pc[w] = "Execute_Return"
    /\ loc[w].path = "compile"
    /\ loc[w].ret = "nil"
    /\ smExists(loc[w].item.id.run)
    /\ runs[loc[w].item.id.run].status = "failed"
    /\ runs[loc[w].item.id.run].actions[StepID] = ErrCompile
    /\ Finished(w) \subseteq emitted

\* C31, as stated: a request version once set is not overwritten by a later
\* response, one with several opcodes included.
C31_AsStated ==
  [][\A r \in DOMAIN runs : runs[r].rv # -1 => runs'[r].rv = runs[r].rv]_vars

\* C31 as the code has it: HandleGeneratorResponse writes the response's
\* version when the version it loaded is -1, and also when the response has
\* several opcodes and immediate execution was not disabled yet; no other step
\* changes the version.
C31_WrittenWhenUnsetOrParallel ==
  [][\A r \in DOMAIN runs :
       runs'[r].rv # runs[r].rv =>
         \E w \in Workers :
           /\ pc[w] = "HandleGeneratorResponse_Update" /\ pc'[w] # pc[w]
           /\ loc[w].item.id.run = r
           /\ runs'[r].rv = loc[w].resp.rv
           /\ \/ loc[w].md.rv = -1
              \/ Len(loc[w].resp.gen) > 1 /\ ~loc[w].md.die]_vars

\* C32, as stated: a HandlePauses call never has more than
\* PauseHandleConcurrency pause handlers in flight, whichever the strategy.
C32_AsStated ==
  \A w \in Workers :
    pc[w] = "FanOut" => InFlight(loc[w]) <= PauseHandleConcurrency

\* C32 for the naive strategy, the one with the semaphore: its handlers in
\* flight stay within the cap, and within the number of pauses it is chosen for.
C32_NaiveBounded ==
  \A w \in Workers :
    pc[w] = "FanOut" /\ loc[w].strategy = "naive"
      => InFlight(loc[w]) <= PauseHandleConcurrency /\ InFlight(loc[w]) <= PauseThreshold

\* C34, as stated: every Cancel or Resume of pause matching runs with the
\* group id of its own pause on its context.
C34_AsStated ==
  \A h \in hist : h.op = "PauseCall" => h.own

\* The events a finish handler has published.
FinishEvents == {n \in emitted : n.name \in {FnFinishedName, FnFailedName}}

\* The run was triggered by a function.finished or function.failed event.
FinishTriggered(r) == EventName(runs[r].id.evt) \in {FnFinishedName, FnFailedName}

\* C33: no function.finished or function.failed event is published for a run
\* that such an event triggered, however the run ends; the end of any other
\* run is published.
C33_NoFinishOfFinish ==
  /\ \A n \in FinishEvents : ~FinishTriggered(n.run)
  /\ \A n \in emitted :
       n.name = "OnFunctionFinished" /\ ~FinishTriggered(n.run)
         => \E m \in FinishEvents : m.run = n.run /\ m.by = n.by

\* A run triggered by function.failed has failed and one triggered by
\* function.finished was cancelled, their listeners told.
C33_Witness ==
  \E r, q \in DOMAIN runs :
    /\ runs[r].id.evt = "e5" /\ runs[r].status = "failed"
    /\ runs[q].id.evt = "e3" /\ runs[q].status = "cancelled"
    /\ \E n \in emitted : n.name = "OnFunctionFinished" /\ n.run = r
    /\ \E n \in emitted : n.name = "OnFunctionCancelled" /\ n.run = q

\* Schedule calls that returned an error after their state.New.
ScheduleFailed ==
  {h \in hist : h.op = "Schedule"
                /\ h.res \in {"error parsing cancel duration", "error enqueueing source edge"}}

\* What a Schedule call's run has in the store and in the queue.
LeftBehind(run) ==
  smExists(run) \/ \E id \in DOMAIN pauses : pauses[id].run.run = run
StartItemOf(run) == {it \in queue : it.kind = "start" /\ it.id.run = run}

\* C35, as stated: a Schedule that returned an error after the run's state was
\* created leaves no run state and no cancellation pause without a start item.
C35_AsStated ==
  \A h \in ScheduleFailed : LeftBehind(h.run) => StartItemOf(h.run) # {}

\* C35 as the code has it: the run state and the pauses saved before the
\* error stay, and no start item is enqueued for them; a Schedule that returned
\* nil has its start item.
C35_FailedScheduleLeavesState ==
  \A h \in hist :
    h.op = "Schedule" =>
      /\ h \in ScheduleFailed => smExists(h.run) /\ StartItemOf(h.run) = {}
      /\ h.res = "nil" => StartItemOf(h.run) # {}

\* A Resume has consumed the pause of step "w" of run r; the queue has accepted
\* the continuation edge of that step.
ConsumedBy(w, r) ==
  pc[w] = "Resume_Enqueue" /\ loc[w].pause.run.run = r /\ loc[w].pause.dataKey = "w"
ContinuationAccepted(r) ==
  r \in DOMAIN runs /\ JobID(runs[r].id, "w", "") \in jobs

\* C36, as stated: once Resume has consumed a pause, the continuation edge of
\* its run is eventually enqueued, whatever fails and is retried in between.
C36_AsStated ==
  \A r \in RunIds :
    (\E w \in Workers : ConsumedBy(w, r)) ~> ContinuationAccepted(r)

\* C36 as the code has it: a Resume whose enqueue failed returns the error with
\* the pause gone, and every later Resume of that pause stops at the lease,
\* which answers ErrPauseNotFound, without a look at the queue.
C36_RetryStopsAtLease ==
  [][\A w \in Workers :
       /\ pc[w] = "Resume_Lease" /\ pc'[w] # pc[w]
          /\ loc[w].pause.id \notin DOMAIN pauses /\ pc'[w] # "Resume_Consume"
            => pc'[w] = "idle" /\ queue' = queue /\ jobs' = jobs
               /\ PauseResult(loc[w], "ErrPauseNotFound") \in hist'
       /\ pc[w] = "Resume_Consume" /\ pc'[w] = "Resume_Enqueue"
            => loc[w].pause.id \notin DOMAIN pauses']_vars

\* C39, as stated: Resume consumes the pause only if its own LeasePause call
\* succeeded.
C39_AsStated ==
  [][\A w \in Workers :
       pc[w] = "Resume_Consume" /\ pc'[w] # pc[w] /\ pauses' # pauses
         => loc[w].lease = "nil"]_vars

\* C39 as the code has it: Resume stops before ConsumePause when the lease
\* answers ErrPauseLeased or ErrPauseNotFound, and goes on after any other
\* answer, nil or not.
C39_StopsOnLeasedOrNotFound ==
  [][\A w \in Workers :
       pc[w] = "Resume_Lease" /\ pc'[w] # pc[w]
         => IF pc'[w] = "Resume_Consume"
            THEN loc'[w].lease \notin {"ErrPauseLeased", "ErrPauseNotFound"}
            ELSE /\ pc'[w] = "idle"
                 /\ smLeasePauseErr(loc[w].pause.id) \in {"ErrPauseLeased", "ErrPauseNotFound"}
                 /\ UNCHANGED <<store, qvars>>]_vars

\* Worker w ends its handling of an InvokeFunction opcode with this step.
InvokeHandled(w) ==
  /\ pc[w] \in {"handleGeneratorInvokeFunction_SavePause",
                "handleGeneratorInvokeFunction_Enqueue",
                "handleGeneratorInvokeFunction_Send"}
  /\ pc'[w] = "Execute_Return"

Published(w, em) ==
  \E n \in Invocations(em) :
    n.by.job = <<RunIDString(loc[w].item.id.run), loc[w].ops[1].id>>

\* C37, as stated: when the handling of an InvokeFunction opcode returns nil,
\* the invocation event of that step has been published, by this attempt or
\* by an earlier one.
C37_AsStated ==
  [][\A w \in Workers :
       InvokeHandled(w) /\ loc'[w].ret = "nil" => Published(w, emitted')]_vars

\* C37 as the code has it: the attempt that gets to publish returns nil only
\* with the event out; an attempt that finds the pause stored or the timeout job
\* enqueued returns nil and publishes nothing.
C37_PublishedByItsOwnAttempt ==
  [][\A w \in Workers :
       InvokeHandled(w)
         => IF pc[w] = "handleGeneratorInvokeFunction_Send"
            THEN loc'[w].ret = "nil" <=> Published(w, emitted') /\ emitted' # emitted
            ELSE loc'[w].ret = "nil" /\ emitted' = emitted]_vars

\* The function.finished events published for run r.
FinishedOf(r) == {n \in emitted : n.name = FnFinishedName /\ n.run = r}

\* C38, as stated: whatever the interleaving of HandleResponse and Cancel, the
\* finish handler publishes at most one function.finished event for a run.
C38_AsStated ==
  \A r \in RunIds : Cardinality(FinishedOf(r)) <= 1

\* C38 as the code has it: each call of HandleResponse or Cancel that reaches
\* the finish handler publishes one event, so a run has at most one event for
\* each call that ended it.
C38_OncePerCall ==
  \A r \in RunIds : \A n, m \in FinishedOf(r) : n.by = m.by => n = m

\* The output of step x of run r is stored; the queue has accepted the edge
\* that follows that step; the run has ended.
StepSaved(r, x) == r \in DOMAIN runs /\ x \in DOMAIN runs[r].actions
FollowUpAccepted(r, x) == r \in DOMAIN runs /\ JobID(runs[r].id, x, "") \in jobs
RunEnded(r) == r \in DOMAIN runs /\ runs[r].status \in Terminal

\* C40, as stated: once a step's output is saved, its follow-up edge is
\* eventually enqueued, by the attempt that saved it or by the queue's retry,
\* unless the run has ended; no run stays with the output stored, no successor
\* and a status that is not terminal.
C40_AsStated ==
  \A r \in RunIds : \A x \in {"a", "b", "s"} :
    StepSaved(r, x) ~> (FollowUpAccepted(r, x) \/ RunEnded(r))

\* C40 as the code has it: the attempt that saved the output enqueues the
\* follow-up edge or returns the queue's error; the retry of a planned step
\* finds the stored output and returns nil with the queue untouched.
C40_RetryFindsOutput ==
  [][\A w \in Workers :
       /\ pc[w] = "handleGeneratorStep_Enqueue" /\ pc'[w] # pc[w]
            => \/ JobID(loc[w].item.id, loc[w].ops[1].id, "") \in jobs'
               \/ loc'[w].err = "enqueue error"
       /\ pc[w] = "Execute_Run" /\ pc'[w] # pc[w]
          /\ StepSaved(loc[w].item.id.run, ExecuteIncoming(loc[w].edge))
          /\ loc[w].acts = runs[loc[w].item.id.run].actions
            => pc'[w] = "Execute_Return" /\ loc'[w].ret = "nil" /\ ~loc'[w].retry
               /\ queue' = queue /\ jobs' = jobs]_vars
====
